---- MODULE Spec2Model ----
(***************************************************************************)
(* A model of the response-parsing and task-execution engine of            *)
(* deepseek-cli: CommandExecutor (parseAIResponse, isCommandForbidden,     *)
(* executeCommand), the agent contexts of DeepSeekCLI and runAgent, and    *)
(* TaskExecutor.executeTaskLoop.                                           *)
(*                                                                         *)
(* Text is modelled as a sequence of one-character strings, so that trim,  *)
(* toLowerCase, split, indexOf and the regular expressions of the source   *)
(* are computed character by character.  Positions are 1-based here (the   *)
(* source is 0-based); 0 stands for JavaScript's -1 (not found).           *)
(***************************************************************************)
EXTENDS Integers, Sequences, FiniteSets, TLC

VARIABLES
    \* ---- parseAIResponse, applied to one reply ----
    replySegments,      \* how the reply was put together (chat / block pieces)
    response,           \* the reply text handed to parseAIResponse
    parsed,             \* the ParseResult, once parseAIResponse has run
    \* ---- one CommandExecutor ----
    forbiddenCommands,  \* this.forbiddenCommands (lower-cased set)
    currentExecution,   \* this.currentExecution: the child process, or NoExecution
    files,              \* paths written by tryHandleHeredocCommand
    lastCall,           \* the last executeCommand call and what it did
    lastCheck,          \* the last direct isCommandForbidden call
    \* ---- the CLI, its agents and the task loop ----
    cli,                \* DeepSeekCLI: workingDirectory, forbiddenCommands, last log line
    agentStack,         \* DeepSeekCLI.agentStack: the agent contexts, root first
    runStack,           \* the runAgent calls in progress, outermost first
    loop,               \* executeTaskLoop: its locals and the position it awaits at
    modelReplies        \* the replies the model may give to the task loop, each with its actions

parseVars == <<replySegments, response, parsed>>
execVars  == <<forbiddenCommands, currentExecution, files, lastCall, lastCheck>>
agentVars == <<cli, agentStack, runStack, loop, modelReplies>>

Null == "null"

\* a value that is not a string (typeof command !== 'string')
NotAString == <<Null>>

\* this.currentExecution: null, or the ChildProcess that execFile returned
NoExecution == [child |-> FALSE, args |-> <<>>]
ChildProcess(shellText) == [child |-> TRUE, args |-> shellText]

(***************************************************************************)
(* String primitives of JavaScript                                         *)
(***************************************************************************)
LowerLetters == <<"a", "b", "c", "d", "e", "f", "g", "h", "i", "j", "k", "l", "m", "n", "o", "p", "q", "r", "s", "t", "u", "v", "w", "x", "y", "z">>
UpperLetters == <<"A", "B", "C", "D", "E", "F", "G", "H", "I", "J", "K", "L", "M", "N", "O", "P", "Q", "R", "S", "T", "U", "V", "W", "X", "Y", "Z">>
Digits == <<"0", "1", "2", "3", "4", "5", "6", "7", "8", "9">>

Range(seq) == {seq[i] : i \in 1..Len(seq)}

\* \s of a regular expression and the characters String.prototype.trim removes
IsSpace(c) == c \in {" ", "\n", "\t", "\r"}

\* the line terminators that ^ and $ recognise under the m flag
IsLineTerminator(c) == c \in {"\n", "\r"}

\* \w of a regular expression: [A-Za-z0-9_]
IsWordChar(c) == c \in Range(LowerLetters) \cup Range(UpperLetters) \cup Range(Digits) \cup {"_"}

LowerChar(c) ==
    IF c \in Range(UpperLetters)
    THEN LowerLetters[CHOOSE i \in 1..Len(UpperLetters) : UpperLetters[i] = c]
    ELSE c

ToLowerCase(s) == [i \in 1..Len(s) |-> LowerChar(s[i])]

RECURSIVE TrimStart(_)
TrimStart(s) == IF s # <<>> /\ IsSpace(Head(s)) THEN TrimStart(Tail(s)) ELSE s

RECURSIVE TrimEnd(_)
TrimEnd(s) ==
    IF s # <<>> /\ IsSpace(s[Len(s)]) THEN TrimEnd(SubSeq(s, 1, Len(s) - 1)) ELSE s

Trim(s) == TrimEnd(TrimStart(s))

StartsWith(s, prefix) ==
    Len(prefix) <= Len(s) /\ SubSeq(s, 1, Len(prefix)) = prefix

\* s.substring(from) with a 1-based from
Substring(s, from) == SubSeq(s, from, Len(s))

\* s.indexOf(pat, from): the least position >= from where pat occurs, else 0
IndexOf(s, pat, from) ==
    LET hits == {i \in from..(Len(s) - Len(pat) + 1) : SubSeq(s, i, i + Len(pat) - 1) = pat}
    IN  IF hits = {} THEN 0 ELSE CHOOSE i \in hits : \A j \in hits : i <= j

\* s.split(sep) for a one-character separator: always at least one piece
RECURSIVE Split(_, _)
Split(s, sep) ==
    LET at == IndexOf(s, <<sep>>, 1)
    IN  IF at = 0 THEN <<s>>
        ELSE <<SubSeq(s, 1, at - 1)>> \o Split(Substring(s, at + 1), sep)

\* pieces.join(sep)
RECURSIVE Join(_, _)
Join(pieces, sep) ==
    IF pieces = <<>> THEN <<>>
    ELSE IF Len(pieces) = 1 THEN pieces[1]
    ELSE pieces[1] \o <<sep>> \o Join(Tail(pieces), sep)

\* the position after the run of characters satisfying a class, from position i
RECURSIVE SkipSpaces(_, _)
SkipSpaces(s, i) == IF i <= Len(s) /\ IsSpace(s[i]) THEN SkipSpaces(s, i + 1) ELSE i

RECURSIVE SkipWord(_, _)
SkipWord(s, i) == IF i <= Len(s) /\ IsWordChar(s[i]) THEN SkipWord(s, i + 1) ELSE i

RECURSIVE Concat(_)
Concat(seqs) == IF seqs = <<>> THEN <<>> ELSE Head(seqs) \o Concat(Tail(seqs))

(***************************************************************************)
(* CommandExecutor.parseAIResponse                                         *)
(***************************************************************************)
OpenMarker == <<">", ">", ">">>
CloseMarker == <<"<", "<", "<">>
AgentWord == <<"a", "g", "e", "n", "t">>

\* the length of the preview kept for an unclosed block
PreviewLength == 200

\* agentLineRegex = /^agent\s+(\w+)\s*:?\s*(.*)$/i on a trimmed line.
\* Greedy matching never has to back off here: (.*) accepts any rest.
AgentMatch(line) ==
    LET afterWord == Len(AgentWord) + 1
        idStart == SkipSpaces(line, afterWord)
        idEnd == SkipWord(line, idStart)
        colon == SkipSpaces(line, idEnd)
        afterColon == IF colon <= Len(line) /\ line[colon] = ":" THEN colon + 1 ELSE colon
        msgStart == SkipSpaces(line, afterColon)
        ok == /\ StartsWith(ToLowerCase(line), AgentWord)
              /\ idStart > afterWord
              /\ idEnd > idStart
              /\ \A i \in msgStart..Len(line) : ~IsLineTerminator(line[i])
    IN  IF ok
        THEN [matched |-> TRUE, agentId |-> SubSeq(line, idStart, idEnd - 1),
              message |-> Trim(Substring(line, msgStart))]
        ELSE [matched |-> FALSE, agentId |-> <<>>, message |-> <<>>]

\* flushCommentLines: the buffered lines become one comment action
FlushCommentLines(lines) ==
    LET text == Trim(Join(lines, "\n"))
    IN  IF lines = <<>> \/ text = <<>> THEN <<>>
        ELSE <<[type |-> "comment", content |-> text]>>

\* the loop of appendChatSegment over the lines of a segment
RECURSIVE ChatLines(_, _)
ChatLines(lines, commentBuffer) ==
    IF lines = <<>> THEN FlushCommentLines(commentBuffer)
    ELSE LET normalized == Trim(Head(lines))
             agentMatch == AgentMatch(normalized)
         IN  IF normalized = <<>>
             THEN FlushCommentLines(commentBuffer) \o ChatLines(Tail(lines), <<>>)
             ELSE IF agentMatch.matched
             THEN FlushCommentLines(commentBuffer)
                  \o <<[type |-> "agent", agentId |-> agentMatch.agentId,
                        message |-> agentMatch.message]>>
                  \o ChatLines(Tail(lines), <<>>)
             ELSE ChatLines(Tail(lines), Append(commentBuffer, normalized))

AppendChatSegment(segment) ==
    IF segment = <<>> THEN <<>> ELSE ChatLines(Split(segment, "\n"), <<>>)

\* response.substring(start + 3, end).trim()
CommandTextUntrimmed(resp, start, end) == SubSeq(resp, start + 3, end - 1)
CommandText(resp, start, end) == Trim(SubSeq(resp, start + 3, end - 1))

\* the mutation: the text of an unclosed block is dropped
UnclosedBlockDropped(resp, start, before, unclosedBlocks) ==
    [actions |-> before,
     unclosedBlocks |-> Append(unclosedBlocks, [startIndex |-> start - 1, preview |-> <<>>])]

\* an opening marker at start without a closing marker after it: the block
\* is noted in the diagnostics and the text from the marker on is chat
UnclosedBlock(resp, start, before, unclosedBlocks) ==
    [actions |-> before \o AppendChatSegment(Substring(resp, start)),
     unclosedBlocks |->
         Append(unclosedBlocks,
                [startIndex |-> start - 1,
                 preview |-> SubSeq(resp, start,
                     IF Len(resp) < start - 1 + PreviewLength
                     THEN Len(resp) ELSE start - 1 + PreviewLength)])]

\* the while loop over the cursor
RECURSIVE ParseFrom(_, _, _, _)
ParseFrom(resp, cursor, actions, unclosedBlocks) ==
    IF cursor > Len(resp)
    THEN [actions |-> actions, unclosedBlocks |-> unclosedBlocks]
    ELSE
      LET start == IndexOf(resp, OpenMarker, cursor)
      IN  IF start = 0
          THEN [actions |-> actions \o AppendChatSegment(Substring(resp, cursor)),
                unclosedBlocks |-> unclosedBlocks]
          ELSE
            LET before == actions \o AppendChatSegment(SubSeq(resp, cursor, start - 1))
                end == IndexOf(resp, CloseMarker, start + 3)
            IN  IF end = 0
                THEN UnclosedBlock(resp, start, before, unclosedBlocks)
                ELSE
                  LET commandText == CommandText(resp, start, end)
                      shell == IF commandText # <<>>
                               THEN <<[type |-> "shell", content |-> commandText]>>
                               ELSE <<>>
                  IN  ParseFrom(resp, end + 3, before \o shell, unclosedBlocks)

SelectType(actions, t) == SelectSeq(actions, LAMBDA a : a.type = t)

\* the mutation: a delegation decides the type before a command does
ParseResultAgentFirst(resp, scan) ==
    LET shells == SelectType(scan.actions, "shell")
        commands == [i \in 1..Len(shells) |-> shells[i].content]
    IN  [type |-> IF SelectType(scan.actions, "agent") # <<>> THEN "agent"
                  ELSE IF Len(commands) > 0 THEN "command"
                  ELSE "comment",
         command |-> IF Len(commands) > 0 THEN commands[1] ELSE Null,
         commands |-> commands,
         actions |-> scan.actions,
         fullResponse |-> resp,
         diagnostics |-> [unclosedBlocks |-> scan.unclosedBlocks]]

\* the ParseResult returned for what the loop has collected (scan)
ParseResult(resp, scan) ==
    LET shells == SelectType(scan.actions, "shell")
        commands == [i \in 1..Len(shells) |-> shells[i].content]
    IN  [type |-> IF Len(commands) > 0 THEN "command"
                  ELSE IF SelectType(scan.actions, "agent") # <<>> THEN "agent"
                  ELSE "comment",
         command |-> IF Len(commands) > 0 THEN commands[1] ELSE Null,
         commands |-> commands,
         actions |-> scan.actions,
         fullResponse |-> resp,
         diagnostics |-> [unclosedBlocks |-> scan.unclosedBlocks]]

ParseAIResponse(resp) == ParseResult(resp, ParseFrom(resp, 1, <<>>, <<>>))

(***************************************************************************)
(* The replies parseAIResponse is applied to: a reply is put together from *)
(* at most MaxSegments pieces, each a stretch of chat text or a command    *)
(* block >>> interior <<<.  Neither the chat texts nor the interiors hold  *)
(* a marker, so the blocks are the well-formed marker pairs of the reply.  *)
(* A reply may end with an opening marker that nothing closes.             *)
(***************************************************************************)
MaxSegments == 3

ChatTexts ==
    { <<"o", "k", "\n">>, <<"A", " ", "r", "u", "n">>, <<" ">>, <<"\n", "\n", "P", "l", "a", "n", ":", "\n">>, <<"a", "g", "e", "n", "t", " ", "B", "o", "b", ":", " ", "g", "o", "\n">> }

Interiors ==
    { <<"p", "w", "d">>, <<" ", "l", "s", " ", "-", "l", "a", "\n">>, <<"\n", "l", "s", "\n", "c", "d", " ", "x", "\n">>, <<>>, <<" ", "\n">>, <<"e", "x", "i", "t">> }

\* what follows an opening marker that is not closed
DanglingTexts == { <<>>, <<" ", "l", "s", " ", "-", "l", "a", "\n">>, <<"\n", "\n", "a", "g", "e", "n", "t", " ", "B", "o", "b", ":", " ", "g", "o">> }

Segments ==
    [kind : {"chat"}, text : ChatTexts] \cup [kind : {"block"}, text : Interiors]

DanglingSegments == [kind : {"open"}, text : DanglingTexts]

SegmentText(seg) ==
    IF seg.kind = "block" THEN OpenMarker \o seg.text \o CloseMarker
    ELSE IF seg.kind = "open" THEN OpenMarker \o seg.text
    ELSE seg.text

ReplyText(segs) == Concat([i \in 1..Len(segs) |-> SegmentText(segs[i])])

WellFormedReplies == UNION {[1..n -> Segments] : n \in 0..MaxSegments}

Replies ==
    WellFormedReplies
    \cup {Append(segs, open) : segs \in UNION {[1..n -> Segments] : n \in 0..(MaxSegments - 1)},
                               open \in DanglingSegments}


(***************************************************************************)
(* CommandExecutor: constructor and isCommandForbidden                     *)
(***************************************************************************)
MAX_COMMAND_LINES == 20

\* new Set(forbiddenCommands.map(cmd => cmd.toLowerCase()))
NewForbiddenSet(list) == {ToLowerCase(list[i]) : i \in 1..Len(list)}

\* command.split('#')[0].trim().toLowerCase()
CleanCommand(command) == ToLowerCase(Trim(Split(command, "#")[1]))

\* the mutation: a forbidden entry must be followed by a space (earlier revision)
MatchesForbiddenAtBoundary(cleanCommand, forbidden) ==
    cleanCommand = forbidden \/ StartsWith(cleanCommand, forbidden \o <<" ">>)

\* cleanCommand === forbidden || cleanCommand.startsWith(forbidden)
MatchesForbidden(cleanCommand, forbidden) ==
    cleanCommand = forbidden \/ StartsWith(cleanCommand, forbidden)

IsCommandForbidden(forbiddenSet, command) ==
    \E forbidden \in forbiddenSet : MatchesForbidden(CleanCommand(command), forbidden)

(***************************************************************************)
(* CommandExecutor.findUnterminatedHeredoc                                 *)
(***************************************************************************)
IsQuote(c) == c \in {"'", "\""}

\* heredocPattern = /<<\s*(['"]?)([A-Za-z0-9_]+)\1/ tried at position i.
\* next is the position after the match (the regex's lastIndex).
HeredocOpenerAt(s, i) ==
    LET afterSpaces == SkipSpaces(s, i + 2)
        quoted == afterSpaces <= Len(s) /\ IsQuote(s[afterSpaces])
        wordStart == IF quoted THEN afterSpaces + 1 ELSE afterSpaces
        wordEnd == SkipWord(s, wordStart)
        ok == /\ i + 1 <= Len(s) /\ s[i] = "<" /\ s[i + 1] = "<"
              /\ wordEnd > wordStart
              /\ quoted => (wordEnd <= Len(s) /\ s[wordEnd] = s[afterSpaces])
    IN  [matched |-> ok,
         marker |-> IF ok THEN SubSeq(s, wordStart, wordEnd - 1) ELSE <<>>,
         next |-> IF quoted THEN wordEnd + 1 ELSE wordEnd]

\* the mutation: the marker is searched without the ^ and $ anchors
HasMarkerAnywhere(text, marker) == IndexOf(text, marker, 1) # 0

\* new RegExp(`^${marker}$`, 'm').test(text)
HasMarkerLine(text, marker) ==
    \E p \in 1..Len(text) :
        /\ p = 1 \/ IsLineTerminator(text[p - 1])
        /\ p + Len(marker) - 1 <= Len(text)
        /\ SubSeq(text, p, p + Len(marker) - 1) = marker
        /\ p + Len(marker) > Len(text) \/ IsLineTerminator(text[p + Len(marker)])

\* the exec loop of the g-flagged pattern: the markers left pending from position i on
RECURSIVE PendingMarkers(_, _)
PendingMarkers(command, i) ==
    IF i > Len(command) THEN <<>>
    ELSE LET m == HeredocOpenerAt(command, i)
         IN  IF ~m.matched THEN PendingMarkers(command, i + 1)
             ELSE (IF HasMarkerLine(Substring(command, i), m.marker)
                   THEN <<>> ELSE <<m.marker>>)
                  \o PendingMarkers(command, m.next)

\* the pending markers; <<>> stands for the null the source returns
FindUnterminatedHeredoc(command) == PendingMarkers(command, 1)

(***************************************************************************)
(* CommandExecutor.tryHandleHeredocCommand                                 *)
(***************************************************************************)
IsTerminatorChar(c) == IsWordChar(c) \/ c = "-"

RECURSIVE SkipTerminator(_, _)
SkipTerminator(s, i) ==
    IF i <= Len(s) /\ IsTerminatorChar(s[i]) THEN SkipTerminator(s, i + 1) ELSE i

\* \s+<<\s*(['"]?)([A-Za-z0-9_-]+)\3\s*$ tried at position t of the first line
HeredocTailAt(s, t) ==
    LET open == SkipSpaces(s, t)
        afterSpaces == SkipSpaces(s, open + 2)
        quoted == afterSpaces <= Len(s) /\ IsQuote(s[afterSpaces])
        termStart == IF quoted THEN afterSpaces + 1 ELSE afterSpaces
        termEnd == SkipTerminator(s, termStart)
        rest == IF quoted THEN termEnd + 1 ELSE termEnd
        ok == /\ open > t
              /\ open + 1 <= Len(s) /\ s[open] = "<" /\ s[open + 1] = "<"
              /\ termEnd > termStart
              /\ quoted => (termEnd <= Len(s) /\ s[termEnd] = s[afterSpaces])
              /\ SkipSpaces(s, rest) = Len(s) + 1
    IN  [matched |-> ok,
         terminator |-> IF ok THEN SubSeq(s, termStart, termEnd - 1) ELSE <<>>]

\* firstLine.match(/^cat\s+(>?>)\s+(.+?)\s+<<\s*(['"]?)([A-Za-z0-9_-]+)\3\s*$/):
\* the lazy (.+?) takes the shortest path after which the tail matches
CatWord == <<"c", "a", "t">>

HeredocHeaderMatch(firstLine) ==
    LET opAt == SkipSpaces(firstLine, Len(CatWord) + 1)
        double == opAt + 1 <= Len(firstLine) /\ firstLine[opAt + 1] = ">"
        afterOp == IF double THEN opAt + 2 ELSE opAt + 1
        pathStart == SkipSpaces(firstLine, afterOp)
        pathEnds == {e \in pathStart..Len(firstLine) :
                        /\ \A k \in pathStart..e : ~IsLineTerminator(firstLine[k])
                        /\ HeredocTailAt(firstLine, e + 1).matched}
        ok == /\ StartsWith(firstLine, CatWord)
              /\ opAt > Len(CatWord) + 1
              /\ opAt <= Len(firstLine) /\ firstLine[opAt] = ">"
              /\ pathStart > afterOp
              /\ pathEnds # {}
        pathEnd == CHOOSE e \in pathEnds : \A f \in pathEnds : e <= f
    IN  IF ok
        THEN [matched |-> TRUE,
              operator |-> IF double THEN ">>" ELSE ">",
              path |-> SubSeq(firstLine, pathStart, pathEnd),
              terminator |-> HeredocTailAt(firstLine, pathEnd + 1).terminator]
        ELSE [matched |-> FALSE, operator |-> ">", path |-> <<>>, terminator |-> <<>>]

\* targetPath: trimmed, and stripped of one pair of surrounding quotes
TargetPath(rawPath) ==
    LET p == Trim(rawPath)
    IN  IF Len(p) >= 1 /\ IsQuote(p[1]) /\ p[Len(p)] = p[1]
        THEN SubSeq(p, 2, Len(p) - 1) ELSE p

\* line.replace(/\r$/, '')
DropTrailingCR(line) ==
    IF line # <<>> /\ line[Len(line)] = "\r" THEN SubSeq(line, 1, Len(line) - 1) ELSE line

\* lines.findIndex((line, idx) => idx > 0 && line.replace(/\r$/, '') === terminator),
\* as a 1-based index into lines; 0 when there is none
ClosingIndex(lines, terminator) ==
    LET hits == {i \in 2..Len(lines) : DropTrailingCR(lines[i]) = terminator}
    IN  IF hits = {} THEN 0 ELSE CHOOSE i \in hits : \A j \in hits : i <= j

\* What tryHandleHeredocCommand decides before it touches the file system:
\* "none" (returns null), "unterminated", or "write" with the file to write.
\* m is the match of the header in the first line, closingIndex the index of
\* the closing line, joined the content lines joined.
HeredocContent(joined) ==
    IF joined # <<>> /\ joined[Len(joined)] # "\n" THEN joined \o <<"\n">> ELSE joined

HeredocClosed(lines, m, closingIndex) ==
    IF closingIndex = 0 THEN [kind |-> "unterminated"]
    ELSE [kind |-> "write",
          operator |-> m.operator,
          path |-> TargetPath(m.path),
          content |-> HeredocContent(Join(SubSeq(lines, 2, closingIndex - 1), "\n"))]

HeredocMatched(lines, m) ==
    IF ~m.matched THEN [kind |-> "none"]
    ELSE HeredocClosed(lines, m, ClosingIndex(lines, m.terminator))

HeredocLines(lines) == HeredocMatched(lines, HeredocHeaderMatch(Trim(lines[1])))

HeredocPlan(command) == HeredocLines(Split(command, "\n"))

(***************************************************************************)
(* CommandExecutor.executeCommand: the pre-execution checks                *)
(***************************************************************************)
PauseWord == <<"p", "a", "u", "s", "e">>
ExitWord == <<"e", "x", "i", "t">>

Result(success, error, paused, lineCount) ==
    [success |-> success, error |-> error, paused |-> paused, lineCount |-> lineCount]

\* the mutation: the sentinel is compared without toLowerCase()
IsSentinelCaseSensitive(trimmedCommand) ==
    trimmedCommand = PauseWord \/ trimmedCommand = ExitWord

\* trimmedCommand.toLowerCase() === 'pause' || trimmedCommand.toLowerCase() === 'exit'
IsSentinel(trimmedCommand) ==
    ToLowerCase(trimmedCommand) = PauseWord \/ ToLowerCase(trimmedCommand) = ExitWord

\* the mutation: only a command equal to a forbidden entry is refused
ForbiddenCheckExact(forbiddenSet, trimmedCommand) ==
    ToLowerCase(trimmedCommand) \in forbiddenSet

\* if (this.isCommandForbidden(trimmedCommand))
ForbiddenCheck(forbiddenSet, trimmedCommand) ==
    IsCommandForbidden(forbiddenSet, trimmedCommand)

LineCount(command) == Len(Split(command, "\n"))

\* the mutation: the budget is compared with >= instead of >
TooManyLinesOffByOne(command) == LineCount(command) >= MAX_COMMAND_LINES

\* commandLines.length > CommandExecutor.MAX_COMMAND_LINES
TooManyLines(command) == LineCount(command) > MAX_COMMAND_LINES

\* executeCommand from tryHandleHeredocCommand on: kind is the kind of its plan
DecideHeredoc(command, kind) ==
    IF kind = "unterminated"
    THEN [step |-> "heredoc-file",
          checks |-> <<"type", "sentinel", "empty", "forbidden", "heredoc", "heredoc-file">>,
          result |-> Result(FALSE, "UNTERMINATED_HEREDOC", FALSE, 0)]
    ELSE IF kind = "write"
    THEN [step |-> "heredoc-write",
          checks |-> <<"type", "sentinel", "empty", "forbidden", "heredoc", "heredoc-file">>,
          result |-> Result(TRUE, Null, FALSE, 0)]
    ELSE IF TooManyLines(command)
    THEN [step |-> "lines",
          checks |-> <<"type", "sentinel", "empty", "forbidden", "heredoc",
                       "heredoc-file", "lines">>,
          result |-> Result(FALSE, "COMMAND_TOO_LONG", FALSE, LineCount(command))]
    ELSE [step |-> "spawn",
          checks |-> <<"type", "sentinel", "empty", "forbidden", "heredoc",
                       "heredoc-file", "lines">>,
          result |-> Result(TRUE, Null, FALSE, 0)]

\* The checks of executeCommand in the order of the source.  checks lists the
\* checks that were evaluated; step is the check that ended the call, or
\* "heredoc-write" / "spawn" when the call goes on to act.
Decide(forbiddenSet, command) ==
    LET trimmedCommand == Trim(command)
    IN  IF command = NotAString
        THEN [step |-> "type", checks |-> <<"type">>,
              result |-> Result(FALSE, "INVALID_COMMAND", FALSE, 0)]
        ELSE IF IsSentinel(trimmedCommand)
        THEN [step |-> "sentinel", checks |-> <<"type", "sentinel">>,
              result |-> Result(TRUE, Null, TRUE, 0)]
        ELSE IF trimmedCommand = <<>>
        THEN [step |-> "empty", checks |-> <<"type", "sentinel", "empty">>,
              result |-> Result(FALSE, "Empty command", FALSE, 0)]
        ELSE IF ForbiddenCheck(forbiddenSet, trimmedCommand)
        THEN [step |-> "forbidden", checks |-> <<"type", "sentinel", "empty", "forbidden">>,
              result |-> Result(FALSE, "Forbidden command", FALSE, 0)]
        ELSE IF FindUnterminatedHeredoc(trimmedCommand) # <<>>
        THEN [step |-> "heredoc",
              checks |-> <<"type", "sentinel", "empty", "forbidden", "heredoc">>,
              result |-> Result(FALSE, "Unterminated heredoc", FALSE, 0)]
        ELSE DecideHeredoc(command, HeredocPlan(command).kind)

(***************************************************************************)
(* The forbidden lists a CommandExecutor is constructed with, and the      *)
(* commands handed to it                                                   *)
(***************************************************************************)
\* defaultForbidden of DeepSeekCLI.loadForbiddenCommands
DefaultForbidden ==
    << <<"r", "m", " ", "-", "r", "f", " ", "/">>, <<"r", "m", " ", "-", "r", "f", " ", "/", "*">>, <<"r", "m", " ", "-", "r", "f", " ", ".">>, <<"r", "m", " ", "-", "r", "f", " ", "*">>,
       <<"d", "d", " ", "i", "f", "=", "/", "d", "e", "v", "/", "r", "a", "n", "d", "o", "m">>, <<"m", "k", "f", "s">>, <<"f", "d", "i", "s", "k">>, <<":", "(", ")", "{", " ", ":", "|", ":", "&", " ", "}", ";", ":">>,
       <<"c", "h", "m", "o", "d", " ", "-", "R", " ", "0", "0", "0">>, <<"c", "h", "o", "w", "n", " ", "-", "R", " ", "r", "o", "o", "t", ":", "r", "o", "o", "t">>, <<"m", "v", " ", "/", " ", "/", "d", "e", "v", "/", "n", "u", "l", "l">>,
       <<">", " ", "/", "d", "e", "v", "/", "s", "d", "a">>, <<"d", "d", " ", "i", "f", "=", "/", "d", "e", "v", "/", "z", "e", "r", "o">> >>

\* [...defaultForbidden, ...configForbiddenCommands]
LoadForbiddenCommands(configForbiddenCommands) == DefaultForbidden \o configForbiddenCommands

\* the list of CommandParserTester.testForbiddenCommands
TestForbidden == << <<"r", "m", " ", "-", "r", "f", " ", "/">>, <<"c", "h", "m", "o", "d", " ", "-", "R", " ", "0", "0", "0", " ", "/">> >>

\* the forbiddenCommands entries of the configuration files considered
ConfigForbidden == { <<>>, << <<"E", "x", "i", "t">> >> }

ForbiddenLists ==
    {TestForbidden} \cup {LoadForbiddenCommands(c) : c \in ConfigForbidden}

\* how many lines beyond MAX_COMMAND_LINES the long commands reach
MaxExtraLines == 1

Leads == { <<>>, <<"\n">> }
Tails == { <<>>, <<" ">> }

Bodies ==
    { <<>>, <<"p", "a", "u", "s", "e">>, <<"E", "x", "i", "t">>, <<"l", "s", " ", "-", "l", "a">>, <<"l", "s", " ", "#", " ", "r", "m", " ", "-", "r", "f", " ", "/">>,
      <<"r", "m", " ", "-", "r", "f", " ", "/">>, <<"R", "M", " ", "-", "R", "F", " ", "/", " ", "#", " ", "x">>, <<"r", "m", " ", "-", "r", "f", " ", "/", "t", "m", "p", "/", "f", "o", "o">>, <<"r", "m", " ", "-", "r", "f", " ", "/", "e", "t", "c">>,
      <<"r", "m", " ", "-", "r", "f", " ", "/", " ", "e", "x", "t", "r", "a">>, <<"r", "m", " ", "-", "r", "f", " ", "/", ";", " ", "e", "c", "h", "o", " ", "h", "i">>, <<"r", "m", " ", "-", "r">>, <<"e", "c", "h", "o", " ", "r", "m", " ", "-", "r", "f", " ", "/">>,
      <<"c", "h", "m", "o", "d", " ", "-", "R", " ", "0", "0", "0", " ", "/", "e", "t", "c">>,
      <<"L", "S", " ", "#", " ", "x">>,
      <<"c", "a", "t", " ", "<", "<", "E", "O", "F", "\n", "h", "i">>, <<"c", "a", "t", " ", "<", "<", "E", "O", "F", "\n", "h", "i", "\n", "E", "O", "F">>, <<"c", "a", "t", " ", "<", "<", "'", "E", "O", "F", "'", "\n", "h", "i", "\n", "E", "O", "F", "\n", "l", "s">>,
      <<"c", "a", "t", " ", "<", "<", " ", "E", "O", "F", "\n", "h", "i", "\n", "E", "O", "F", " ", "x">>, <<"c", "a", "t", " ", "<", "<", "E", "O", "F", "\n", "h", "i", "\n", "E", "O", "F", "\r", "\n", "l", "s">>,
      <<"r", "m", " ", "-", "r", "f", " ", "/", " ", "<", "<", "E", "O", "F", "\n", "h", "i">>,
      <<"c", "a", "t", " ", ">", " ", "f", " ", "<", "<", "E", "O", "F", "\n", "h", "i", "\n", "E", "O", "F">>, <<"c", "a", "t", " ", ">", ">", " ", "f", " ", "<", "<", "\"", "E", "\"", "\n", "E">>, <<"c", "a", "t", " ", ">", " ", "f", " ", "<", "<", "E", "-", "F", "\n", "h", "i", "\n", "E", "-", "F">> }

\* n lines, each the single character x
RECURSIVE XLines(_)
XLines(n) == IF n <= 1 THEN <<"x">> ELSE <<"x", "\n">> \o XLines(n - 1)

LineCounts == (MAX_COMMAND_LINES - 1)..(MAX_COMMAND_LINES + MaxExtraLines)

LongBodies ==
    {XLines(n) : n \in LineCounts}
    \cup {<<"r", "m", " ", "-", "r", "f", " ", "/", "\n">> \o XLines(n) : n \in LineCounts}
    \cup {<<"c", "a", "t", " ", ">", " ", "f", " ", "<", "<", "E", "O", "F", "\n">> \o XLines(n) \o <<"\n", "E", "O", "F">> : n \in LineCounts}

Commands ==
    {lead \o body \o tail : lead \in Leads, body \in Bodies \cup LongBodies, tail \in Tails}
    \cup {NotAString}

ForbiddenSets == {NewForbiddenSet(list) : list \in ForbiddenLists} \cup {{}}

\* isCommandForbidden, executeCommand's checks and tryHandleHeredocCommand's
\* plan, tabulated over the forbidden sets and the commands considered
ForbiddenTable ==
    [f \in ForbiddenSets, c \in Commands \ {NotAString} |-> IsCommandForbidden(f, c)]
DecideTable == [f \in ForbiddenSets, c \in Commands |-> Decide(f, c)]
PlanTable ==
    [c \in Commands |-> IF c = NotAString THEN [kind |-> "none"] ELSE HeredocPlan(c)]

(***************************************************************************)
(* DeepSeekCLI: the agent contexts of the CLI (agentStack); runAgent: the   *)
(* delegated agents started by launchAgentFromAI (runStack)                *)
(***************************************************************************)
\* config.agents: the identifiers of the configured agents
AgentIds == { <<"G", "e", "n", "e", "r", "i", "c">>, <<"H", "e", "l", "p", "e", "r">> }

\* the identifiers a user or a reply may ask for: the configured ones and an unknown one
RequestedIds == AgentIds \cup { <<"G", "h", "o", "s", "t">> }

\* process.env.DEEPSEEK_DEFAULT_AGENT || 'Generic'
DefaultAgentId == <<"G", "e", "n", "e", "r", "i", "c">>

WorkingDirs == {"/proj", "/srv"}

\* the bounds on the depth of the two stacks
MaxContexts == 2
MaxRunDepth == 2

\* the commands the agents are given
AgentCommands == { <<"l", "s", " ", "-", "l", "a">>, <<"r", "m", " ", "-", "r", "f", " ", "/">> }

\* new CommandExecutor(workingDirectory, forbiddenCommands)
NewCommandExecutor(workingDirectory, forbiddenList) ==
    [workingDirectory |-> workingDirectory,
     forbiddenCommands |-> NewForbiddenSet(forbiddenList)]

NoAgentCall == [command |-> <<>>, step |-> "none", spawned |-> FALSE]

\* commandExecutor.executeCommand(command), awaited: what the call did
AgentCall(command, d) ==
    [command |-> command, step |-> d.step, spawned |-> d.step = "spawn"]

ExecuteOn(commandExecutor, command) ==
    AgentCall(command, Decide(commandExecutor.forbiddenCommands, command))

\* Number.prototype.toString(36) of a natural number
Digits36 == <<"0", "1", "2", "3", "4", "5", "6", "7", "8", "9", "a", "b", "c", "d", "e", "f", "g", "h", "i", "j", "k", "l", "m", "n", "o", "p", "q", "r", "s", "t", "u", "v", "w", "x", "y", "z">>

RECURSIVE ToString36(_)
ToString36(n) ==
    IF n < Len(Digits36) THEN <<Digits36[n + 1]>>
    ELSE ToString36(n \div Len(Digits36)) \o <<Digits36[(n % Len(Digits36)) + 1]>>

\* Math.random().toString(36).substring(2, 6): the contexts draw the same
\* digits, the case in which their session identifiers differ least
RandomDigits == <<"k", "3", "f", "9">>

\* SessionManager.generateSessionId at the time now
GenerateSessionId(now) == ToString36(now) \o <<"-">> \o RandomDigits

\* the session file of a SessionManager; <<>> is the namespace null
SessionFile(sessionNamespace) ==
    <<".", "d", "e", "e", "p", "s", "e", "e", "k", "_", "s", "e", "s", "s", "i", "o", "n", "s", "/", ".", "d", "e", "e", "p", "s", "e", "e", "k", "_", "s", "e", "s", "s", "i", "o", "n">>
    \o (IF sessionNamespace = <<>> THEN <<>> ELSE <<"_">> \o sessionNamespace)
    \o <<".", "j", "s", "o", "n">>

\* Date.now() when a context is pushed on the stack.  The clock never goes
\* back, and milliseconds are counted from the creation of the root context.
\* LaterTimes: the context is created a millisecond after the context below
\* it.  PushTimes: or in the same millisecond as a pushed context below it.
LaterTimes(stack) == {stack[Len(stack)].createdAt + 1}

PushTimes(stack) ==
    LaterTimes(stack) \cup (IF Len(stack) > 1 THEN {stack[Len(stack)].createdAt} ELSE {})

\* DeepSeekCLI.createAgentContext, for a configured agent, at the time now
\* (createdAt); conversation is the length of
\* sessionManager.conversationHistory (cleared for a pushed context), and
\* currentSessionId the identifier that loadSession or clearCurrentSession
\* generates
CreateAgentContext(c, agentId, isRoot, now) ==
    [agentId |-> agentId,
     createdAt |-> now,
     sessionNamespace |-> IF isRoot THEN <<>>
                          ELSE agentId \o <<"_">> \o ToString36(now),
     currentSessionId |-> GenerateSessionId(now),
     commandExecutor |-> NewCommandExecutor(c.workingDirectory, c.forbiddenCommands),
     taskExecutor |-> [isInterrupted |-> FALSE],
     autoPopOnComplete |-> FALSE,
     conversation |-> 0,
     lastCall |-> NoAgentCall]

\* parentSessionManager.currentSessionId || "main"
ParentSessionId(currentSessionId) ==
    IF currentSessionId = <<>> THEN <<"m", "a", "i", "n">> ELSE currentSessionId

\* the state runAgent sets up before its loop: the namespace and the
\* identifier of its session, its executor, the interrupted flag of its
\* interrupt listener, and the reply being processed.  parent is what the
\* caller passes of its own session (currentSessionId), and now the time
\* runAgent reads: the millisecond in which its caller was created, the case
\* in which the namespaces differ least.
RunAgentFrame(agentId, depth, workingDirectory, parent, listener) ==
    [agentId |-> agentId,
     listener |-> listener,
     depth |-> depth,
     createdAt |-> parent.createdAt,
     sessionNamespace |-> ParentSessionId(parent.currentSessionId) \o <<"_">> \o agentId
                          \o <<"_">> \o ToString36(parent.createdAt),
     currentSessionId |-> ParentSessionId(parent.currentSessionId) \o <<"_", "a", "g", "e", "n", "t", "_">> \o agentId
                          \o <<"_">> \o ToString36(parent.createdAt),
     commandExecutor |-> NewCommandExecutor(workingDirectory, <<>>),
     interrupted |-> FALSE,
     pc |-> "ask",
     response |-> <<>>,
     pending |-> <<>>,
     lastCall |-> NoAgentCall]

\* the stack without its top
Popped(stack) == SubSeq(stack, 1, Len(stack) - 1)

\* the callback that a call of onInterrupt adds to the Set of listeners: the
\* callbacks are numbered, 0 is the listener of DeepSeekCLI
FreshListener(listeners) ==
    CHOOSE n \in 0..Cardinality(listeners) :
        n \notin listeners /\ \A m \in 0..(n - 1) : m \in listeners

\* interruptController.onInterrupt(callback) of the set-up of runAgent
OnInterrupt(c) ==
    [c EXCEPT !.interruptController.listeners = @ \cup {FreshListener(@)}]

\* the listeners that the runAgent calls in progress registered
ListenersOf(frames) == {frames[j].listener : j \in 1..Len(frames)}

\* launchAgentFromAI: runAgent(agentId, message, {depth, workingDirectory, ...});
\* runAgent throws for an identifier that is not configured
LaunchedRunStack(c, contexts, agentId) ==
    IF agentId \in AgentIds
    THEN <<RunAgentFrame(agentId,
                         IF Len(contexts) > 1 THEN Len(contexts) - 1 ELSE 0,
                         c.workingDirectory,
                         contexts[Len(contexts)],
                         FreshListener(c.interruptController.listeners))>>
    ELSE <<>>

\* what the last handleInterruptSignal did: the length of the stack it found,
\* the contexts whose task loop it asked to stop and whose executor it told
\* to kill its process, whether it found a process and a model call in flight
\* and ended them, and how many of the contexts it popped it archived
NoInterrupt ==
    [stack |-> 0, stopped |-> {}, killed |-> {}, inFlight |-> FALSE, signalled |-> FALSE,
     asking |-> FALSE, aborted |-> FALSE, nonEmpty |-> 0, archived |-> 0]

\* the mutation: applyContext leaves the fields of DeepSeekCLI as they are
ApplyContextNot(c, contexts) == c

\* applyContext(context) with the last context of contexts: the agent
\* identifier is a value; the session manager, the command executor, the
\* conversation manager and the task executor are the objects of that
\* context, referred to by the position of the context in the stack
ApplyContext(c, contexts) ==
    [c EXCEPT !.currentAgentId = contexts[Len(contexts)].agentId,
              !.sessionManager = Len(contexts),
              !.commandExecutor = Len(contexts),
              !.conversationManager = Len(contexts),
              !.taskExecutor = Len(contexts)]

\* DeepSeekCLI after its constructor, which pushed and applied the root
\* context.  interruptController.interrupted is the
\* flag of the InterruptController; tasks counts the task loops started.
NewCli(workingDirectory, configForbiddenCommands) ==
    [workingDirectory |-> workingDirectory,
     forbiddenCommands |-> LoadForbiddenCommands(configForbiddenCommands),
     currentAgentId |-> DefaultAgentId,
     sessionManager |-> 1,
     commandExecutor |-> 1,
     conversationManager |-> 1,
     taskExecutor |-> 1,
     isInterrupted |-> FALSE,
     interruptController |-> [interrupted |-> FALSE, listeners |-> {0}],
     lastInterrupt |-> NoInterrupt,
     tasks |-> 0,
     lastLog |-> "instantiated"]

NoCli ==
    [workingDirectory |-> "", forbiddenCommands |-> <<>>,
     currentAgentId |-> <<>>, sessionManager |-> 0, commandExecutor |-> 0,
     conversationManager |-> 0, taskExecutor |-> 0, isInterrupted |-> FALSE,
     interruptController |-> [interrupted |-> FALSE, listeners |-> {}],
     lastInterrupt |-> NoInterrupt,
     tasks |-> 0, lastLog |-> "none"]

\* /^(>>\s*)?(exit|pause|done)$/i.test(response.trim()): the test of runAgent
\* for the reply that ends the agent
DoneWord == <<"d", "o", "n", "e">>

IsAgentSentinel(resp) ==
    LET lowered == ToLowerCase(Trim(resp))
        word == IF StartsWith(lowered, <<">", ">">>)
                THEN Substring(lowered, SkipSpaces(lowered, 3)) ELSE lowered
    IN  word \in {ExitWord, PauseWord, DoneWord}

\* a reply of the model to a delegated agent, with parseAIResponse(response).actions
AgentTurn(resp) == [reply |-> resp, actions |-> ParseAIResponse(resp).actions, fails |-> FALSE]

\* the model call of a delegated agent that throws
FailedTurn == [reply |-> <<>>, actions |-> <<>>, fails |-> TRUE]

\* the replies given to the delegated agents
AgentReplies ==
    { <<"o", "k">>, <<"d", "o", "n", "e">>, <<">", ">", ">", "l", "s", " ", "-", "l", "a", "<", "<", "<">>, <<">", ">", ">", "r", "m", " ", "-", "r", "f", " ", "/", "<", "<", "<">>,
      <<"a", "g", "e", "n", "t", " ", "H", "e", "l", "p", "e", "r", ":", " ", "g", "o">>, <<"a", "g", "e", "n", "t", " ", "G", "h", "o", "s", "t", ":", " ", "g", "o">> }

AgentTurns == {AgentTurn(r) : r \in AgentReplies} \cup {FailedTurn}

(***************************************************************************)
(* TaskExecutor.executeTaskLoop and ConversationManager                    *)
(***************************************************************************)
maxIterations == 100
criticalConversationLength == 100

\* the caps of the counters kept for the command history and the compactions
HistoryCap == 1
CompactionCap == 1

\* how many model calls of a task loop throw
MaxAskFailures == 1

Min(a, b) == IF a < b THEN a ELSE b

\* a counter that stops counting at its cap
Bump(n, cap) == IF n < cap THEN n + 1 ELSE n

\* the mutation: the threshold itself does not need a compaction
NeedsCompactAbove(conversation) == conversation > criticalConversationLength

\* checkConversationSize() === "needs_compact"
NeedsCompact(conversation) == conversation >= criticalConversationLength

\* compactConversationWithAI: slice(0, 2), the summary, slice(-4)
CompactedLength(total) == Min(total, 2) + 1 + Min(total, 4)

\* compactConversationFallback: slice(0, 4) and slice(-6)
FallbackLength(total) == Min(total, 4) + Min(total, 6)

\* the prompts of executeTaskLoop.  TaskPrompt is the initialPrompt of the
\* loops started here.
TaskPrompt == <<"l", "i", "s", "t", " ", "t", "h", "e", " ", "f", "i", "l", "e", "s">>
NeedCommandPrompt == <<"G", "i", "v", "e", " ", "m", "e", " ", "a", " ", "v", "a", "l", "i", "d", " ", "s", "h", "e", "l", "l", " ", "c", "o", "m", "m", "a", "n", "d", " ", "t", "o", " ", "e", "x", "e", "c", "u", "t", "e">>
NeedWrappedCommandPrompt == <<"G", "i", "v", "e", " ", "m", "e", " ", "a", " ", "v", "a", "l", "i", "d", " ", "s", "h", "e", "l", "l", " ", "c", "o", "m", "m", "a", "n", "d", " ", "w", "r", "a", "p", "p", "e", "d", " ", "b", "e", "t", "w", "e", "e", "n", " ", ">", ">", ">", " ", "a", "n", "d", " ", "<", "<", "<">>
CommandHandledPrompt == <<"C", "o", "m", "m", "a", "n", "d", " ", "h", "a", "n", "d", "l", "e", "d", ".", " ", "C", "o", "n", "t", "i", "n", "u", "e", " ", "w", "i", "t", "h", " ", "n", "e", "x", "t", " ", "i", "n", "s", "t", "r", "u", "c", "t", "i", "o", "n", ".">>
AgentCommandHandledPrompt == <<"A", "g", "e", "n", "t", " ", "c", "o", "m", "m", "a", "n", "d", " ", "h", "a", "n", "d", "l", "e", "d", ".", " ", "C", "o", "n", "t", "i", "n", "u", "e", " ", "w", "i", "t", "h", " ", "t", "h", "e", " ", "n", "e", "x", "t", " ", "i", "n", "s", "t", "r", "u", "c", "t", "i", "o", "n", ".">>

\* `Delegated to agent ${action.agentId}. Continue.`
DelegatedPrompt(agentId) == <<"D", "e", "l", "e", "g", "a", "t", "e", "d", " ", "t", "o", " ", "a", "g", "e", "n", "t", " ">> \o agentId \o <<".", " ", "C", "o", "n", "t", "i", "n", "u", "e", ".">>

\* `Error: ${error.message}. What next?`
ErrorPrompt(message) == <<"E", "r", "r", "o", "r", ":", " ">> \o message \o <<".", " ", "W", "h", "a", "t", " ", "n", "e", "x", "t", "?">>

\* the messages of the errors that askDeepSeek throws: a response that is not
\* ok, and the AbortError of a request aborted by its timeout
ApiErrorMessage == <<"H", "T", "T", "P", " ", "5", "0", "0", ":", " ", "I", "n", "t", "e", "r", "n", "a", "l", " ", "S", "e", "r", "v", "e", "r", " ", "E", "r", "r", "o", "r">>
AbortErrorMessage == <<"T", "h", "i", "s", " ", "o", "p", "e", "r", "a", "t", "i", "o", "n", " ", "w", "a", "s", " ", "a", "b", "o", "r", "t", "e", "d">>

\* the error of a result as text
ErrorText(error) ==
    IF error = "COMMAND_TOO_LONG" THEN <<"C", "O", "M", "M", "A", "N", "D", "_", "T", "O", "O", "_", "L", "O", "N", "G">>
    ELSE IF error = "UNTERMINATED_HEREDOC" THEN <<"U", "N", "T", "E", "R", "M", "I", "N", "A", "T", "E", "D", "_", "H", "E", "R", "E", "D", "O", "C">>
    ELSE IF error = "Unterminated heredoc" THEN <<"U", "n", "t", "e", "r", "m", "i", "n", "a", "t", "e", "d", " ", "h", "e", "r", "e", "d", "o", "c">>
    ELSE IF error = "Forbidden command" THEN <<"F", "o", "r", "b", "i", "d", "d", "e", "n", " ", "c", "o", "m", "m", "a", "n", "d">>
    ELSE IF error = "Empty command" THEN <<"E", "m", "p", "t", "y", " ", "c", "o", "m", "m", "a", "n", "d">>
    ELSE IF error = "INVALID_COMMAND" THEN <<"I", "N", "V", "A", "L", "I", "D", "_", "C", "O", "M", "M", "A", "N", "D">>
    ELSE IF error = "HEREDOC_WRITE_FAILED" THEN <<"H", "E", "R", "E", "D", "O", "C", "_", "W", "R", "I", "T", "E", "_", "F", "A", "I", "L", "E", "D">>
    ELSE <<"e", "r", "r", "o", "r", ".", "m", "e", "s", "s", "a", "g", "e">>

\* CommandExecutor.createSummaryPrompt; an output of <<>> is the empty output
CreateSummaryPrompt(command, success, output, error) ==
    LET lines == << <<"C", "o", "m", "m", "a", "n", "d", ":", " ">> \o command,
                    <<"R", "e", "s", "u", "l", "t", ":", " ">> \o (IF success THEN <<"S", "U", "C", "C", "E", "S", "S">> ELSE <<"F", "A", "I", "L", "E", "D">>) >>
                 \o (IF error # Null THEN << <<"E", "r", "r", "o", "r", ":", " ">> \o ErrorText(error) >> ELSE <<>>)
                 \o << <<"O", "u", "t", "p", "u", "t", ":">> >>
                 \o Split(IF output = <<>> THEN <<"N", "o", " ", "o", "u", "t", "p", "u", "t">> ELSE output, "\n")
                 \o << <<>>, <<"N", "e", "x", "t", " ", "c", "o", "m", "m", "a", "n", "d", "?", " ", "R", "e", "m", "e", "m", "b", "e", "r", " ", "t", "o", " ", "w", "r", "a", "p", " ", "i", "t", " ", "b", "e", "t", "w", "e", "e", "n", " ", ">", ">", ">", " ", "a", "n", "d", " ", "<", "<", "<", ".">> >>
    IN  TrimEnd(Join(lines, "\n"))

\* the entries of sessionManager.addHistoryEntry; the output of a command is
\* not modelled and left empty
NoEntry == [command |-> <<>>, success |-> FALSE, output |-> <<>>]

\* the entry for an agent action
DelegationEntry(action) ==
    [command |-> <<"a", "g", "e", "n", "t", " ">> \o action.agentId \o <<" ">> \o action.message,
     success |-> TRUE,
     output |-> <<"D", "e", "l", "e", "g", "a", "t", "e", "d", " ", "t", "o", " ", "a", "g", "e", "n", "t", " ">> \o action.agentId]

\* the replies of the model to the task loop; the API call may also throw
LoopReplies ==
    { <<>>, <<"o", "k">>, <<">", ">", ">", "l", "s", " ", "-", "l", "a", "<", "<", "<">>, <<">", ">", ">", "E", "x", "i", "t", "<", "<", "<">>, <<"a", "g", "e", "n", "t", " ", "H", "e", "l", "p", "e", "r", ":", " ", "g", "o">>,
      <<"a", "g", "e", "n", "t", " ", "G", "h", "o", "s", "t", ":", " ", "g", "o">>, <<"o", "k", "\n", ">", ">", ">", "l", "s", " ", "-", "l", "a", "<", "<", "<", "\n", "a", "g", "e", "n", "t", " ", "H", "e", "l", "p", "e", "r", ":", " ", "g", "o", "\n", ">", ">", ">", "p", "w", "d", "<", "<", "<">>,
      <<"d", "o", "n", "e">>, <<">", ">", ">", "d", "o", "n", "e", "<", "<", "<">>, <<">", ">", ">", "p", "a", "u", "s", "e", "<", "<", "<", "\n", ">", ">", ">", "l", "s", " ", "-", "l", "a", "<", "<", "<">>,
      <<">", ">", ">", "c", "a", "t", " ", "<", "<", "E", "O", "F", "\n", "x", "<", "<", "<">>, <<">", ">", ">", "c", "a", "t", " ", ">", " ", "f", " ", "<", "<", " ", "\"", "E", "-", "F", "\"", "\n", "x", "<", "<", "<">>,
      OpenMarker \o XLines(MAX_COMMAND_LINES + 1) \o CloseMarker }

\* the mutation: the actions of a reply come in the reverse order
LoopTurnReversed(resp) ==
    LET actions == ParseAIResponse(resp).actions
    IN  [reply |-> resp,
         actions |-> [i \in 1..Len(actions) |-> actions[Len(actions) + 1 - i]]]

\* a reply with parseAIResponse(response).actions
LoopTurn(resp) == [reply |-> resp, actions |-> ParseAIResponse(resp).actions]

LoopActions == {LoopTurn(r) : r \in LoopReplies}

\* the commands of the replies, and what executeCommand decides for each on an
\* executor with the default forbidden list, computed once
ReplyCommands ==
    UNION {{turn.actions[i].content :
                i \in {j \in 1..Len(turn.actions) : turn.actions[j].type = "shell"}} :
           turn \in LoopActions}

ReplyDecisions ==
    [content \in ReplyCommands |->
        Decide(NewForbiddenSet(LoadForbiddenCommands(<<>>)), content)]

DecideReply(forbiddenSet, content) ==
    IF content \in ReplyCommands /\ forbiddenSet = NewForbiddenSet(LoadForbiddenCommands(<<>>))
    THEN ReplyDecisions[content]
    ELSE Decide(forbiddenSet, content)

\* the number of model calls of a task loop of SpecLoop that are answered with
\* any reply of LoopReplies; the later calls are answered with chat only
MaxVariedReplies == 2

LateReplies == {LoopTurn(<<"o", "k">>)}

\* the conversation lengths a task loop starts from
InitialConversations == {0, criticalConversationLength - 2, criticalConversationLength}

\* The locals of executeTaskLoop and the position it awaits at (pc).
\* isInterrupted is the flag of the TaskExecutor that runs the loop, owner the
\* index its context had on the agent stack when the loop started, caller the
\* code that awaits the loop, aborted the state of the AbortController handed
\* to askDeepSeek, process the child process of the awaited executeCommand.
\* currentPrompt, executedSomething and lastSummaryPrompt are the locals of
\* these names (<<>> for null; currentPrompt is <<>> as well from the reply to
\* it until it is assigned again, while nothing reads it), lastEntry is the
\* entry that the iteration has added to the command history last.
\* breakCause tells which break left the while loop, response is the reply of
\* the iteration, first the first reply to the prompt of a push, delivered
\* tells that an interrupt arrived while the actions of a reply were
\* processed, base is the length of the agent stack before the push that
\* started the loop (its length at the start for a task of the user).
NoLoop ==
    [pc |-> "idle", iteration |-> 0, shouldBreak |-> FALSE, needsCompaction |-> FALSE,
     pending |-> <<>>, conversation |-> 0, history |-> 0,
     asks |-> 0, failures |-> 0, compactions |-> 0, outcome |-> "none",
     isInterrupted |-> FALSE, owner |-> 0, caller |-> "none", aborted |-> FALSE,
     process |-> "none", breakCause |-> "none", response |-> <<>>, first |-> <<>>,
     delivered |-> FALSE, base |-> 0,
     currentPrompt |-> <<>>, executedSomething |-> FALSE, lastSummaryPrompt |-> <<>>,
     lastEntry |-> NoEntry,
     lastCall |-> NoAgentCall]

AgentIdle ==
    cli = NoCli /\ agentStack = <<>> /\ runStack = <<>> /\ loop = NoLoop /\ modelReplies = {}

\* handleSpecialCommand: /^agent\s+(\w+)\s*:?\s*(.+)$/i on the content of a
\* shell action.  stops are the positions where \s*:?\s* can end after the
\* whole identifier; (.+) needs one character or more, none a line terminator,
\* up to the end.  When the whole identifier leaves nothing for (.+), the
\* expression backs off inside the identifier.
SpecialCommandMatch(content) ==
    LET afterWord == Len(AgentWord) + 1
        idStart == SkipSpaces(content, afterWord)
        idEnd == SkipWord(content, idStart)
        colon == SkipSpaces(content, idEnd)
        stops == (idEnd..colon)
                 \cup (IF colon <= Len(content) /\ content[colon] = ":"
                       THEN (colon + 1)..SkipSpaces(content, colon + 1) ELSE {})
        Rest(p) == p <= Len(content) /\ \A i \in p..Len(content) : ~IsLineTerminator(content[i])
        whole == \E p \in stops : Rest(p)
        part == idEnd - idStart >= 2 /\ Rest(idEnd - 1)
        ok == /\ StartsWith(ToLowerCase(content), AgentWord)
              /\ idStart > afterWord
              /\ idEnd > idStart
              /\ whole \/ part
    IN  [matched |-> ok,
         agentId |-> IF ~ok THEN <<>>
                     ELSE IF whole THEN SubSeq(content, idStart, idEnd - 1)
                     ELSE SubSeq(content, idStart, idEnd - 2)]

\* the mutation: only exit is a sentinel of the task loop
IsLoopSentinelExitOnly(content) == ToLowerCase(content) = ExitWord

\* action.content.toLowerCase() === 'pause' || ... === 'exit'
IsLoopSentinel(content) == ToLowerCase(content) = PauseWord \/ ToLowerCase(content) = ExitWord

\* this.isInterrupted || (cliInstance && cliInstance.isInterrupted)
Interrupted(l) == l.isInterrupted \/ cli.isInterrupted

\* The statements after the while loop: the message printed, and the flag of
\* the TaskExecutor reset
Ended(l) ==
    [l EXCEPT !.pc = "done", !.pending = <<>>, !.isInterrupted = FALSE,
              !.outcome = IF l.isInterrupted THEN "interrupted"
                          ELSE IF ~l.shouldBreak /\ l.iteration > maxIterations
                          THEN "max iterations"
                          ELSE IF ~l.shouldBreak THEN "completed" ELSE "stopped"]

\* a break inside the while loop, after shouldBreak = true
Break(l, cause) == Ended([l EXCEPT !.shouldBreak = TRUE, !.breakCause = cause])

\* The while condition of executeTaskLoop and the check at the head of its
\* body, evaluated when an iteration has ended: the loop goes on to its next
\* await (the compaction or the model call), or ends.
NextTurn(l) ==
    IF l.iteration <= maxIterations /\ ~l.shouldBreak /\ ~l.isInterrupted
    THEN IF cli.isInterrupted
         THEN Ended([l EXCEPT !.isInterrupted = TRUE])
         ELSE [l EXCEPT !.pc = IF l.needsCompaction THEN "compact" ELSE "ask",
                        !.pending = <<>>, !.response = <<>>, !.aborted = FALSE,
                        !.executedSomething = FALSE, !.lastSummaryPrompt = <<>>,
                        !.lastEntry = NoEntry]
    ELSE Ended(l)

(***************************************************************************)
(* State of the parts that a specification does not exercise               *)
(***************************************************************************)
NoParse ==
    [type |-> "none", command |-> Null, commands |-> <<>>, actions |-> <<>>,
     fullResponse |-> <<>>, diagnostics |-> [unclosedBlocks |-> <<>>]]

NoResult == Result(FALSE, Null, FALSE, 0)

NoCall ==
    [command |-> <<>>, step |-> "none", checks |-> <<>>, result |-> NoResult,
     resolved |-> TRUE, spawned |-> FALSE, shellText |-> <<>>,
     wrote |-> FALSE, path |-> <<>>, process |-> "none"]

NoCheck == [command |-> <<>>, asked |-> FALSE, forbidden |-> FALSE]

ParseIdle == replySegments = <<>> /\ response = <<>> /\ parsed = NoParse

ExecIdle ==
    /\ forbiddenCommands = {}
    /\ currentExecution = NoExecution
    /\ files = {}
    /\ lastCall = NoCall
    /\ lastCheck = NoCheck

(***************************************************************************)
(* SpecParse: parseAIResponse applied to a reply                           *)
(***************************************************************************)
InitParse ==
    /\ replySegments \in Replies
    /\ response = ReplyText(replySegments)
    /\ parsed = NoParse
    /\ ExecIdle
    /\ AgentIdle

ParseResponse ==
    /\ parsed = NoParse
    /\ parsed' = ParseAIResponse(response)
    /\ UNCHANGED <<replySegments, response, execVars, agentVars>>

NextParse == ParseResponse

(***************************************************************************)
(* SpecForbidden: isCommandForbidden called on an executor                 *)
(***************************************************************************)
InitExec ==
    /\ \E list \in ForbiddenLists : forbiddenCommands = NewForbiddenSet(list)
    /\ currentExecution = NoExecution
    /\ files = {}
    /\ lastCall = NoCall
    /\ lastCheck = NoCheck
    /\ ParseIdle
    /\ AgentIdle

IsCommandForbiddenCall(command) ==
    /\ command # NotAString
    /\ lastCheck' = [command |-> command, asked |-> TRUE,
                     forbidden |-> ForbiddenTable[forbiddenCommands, command]]
    /\ UNCHANGED <<forbiddenCommands, currentExecution, files, lastCall, parseVars, agentVars>>

NextForbidden == \E command \in Commands : IsCommandForbiddenCall(command)

(***************************************************************************)
(* SpecExec: executeCommand calls on an executor, each awaited by its      *)
(* caller; the child process ends by itself or after killCurrentProcess    *)
(***************************************************************************)
Call(command, d) ==
    [command |-> command, step |-> d.step, checks |-> d.checks, result |-> d.result,
     resolved |-> TRUE, spawned |-> FALSE, shellText |-> <<>>,
     wrote |-> FALSE, path |-> <<>>, process |-> "none"]

\* the mutation: the shell is handed the text the forbidden check looked at
ShellTextCleaned(command) == CleanCommand(Trim(command))

\* const args = ["-c", trimmedCommand]: the text the shell is handed
ShellText(command) == Trim(command)

\* executeCommand once its checks are decided: d is what Decide gives for the
\* command, plan what tryHandleHeredocCommand plans for it
Execute(command, d, plan) ==
    /\ lastCall.resolved
    /\ \/ /\ d.step \notin {"heredoc-write", "spawn"}
          /\ lastCall' = Call(command, d)
          /\ UNCHANGED <<currentExecution, files>>
       \/ /\ d.step = "heredoc-write"
          \* mkdirSync / writeFileSync / appendFileSync succeed or throw
          /\ \/ /\ files' = files \cup {plan.path}
                /\ lastCall' = [Call(command, d) EXCEPT !.wrote = TRUE, !.path = plan.path]
             \/ /\ files' = files
                /\ lastCall' = [Call(command, d) EXCEPT
                                   !.result = Result(FALSE, "HEREDOC_WRITE_FAILED", FALSE, 0)]
          /\ UNCHANGED currentExecution
       \/ /\ d.step = "spawn"
          \* execFile("/bin/sh", ["-c", trimmedCommand], ...)
          /\ currentExecution' = ChildProcess(ShellText(command))
          /\ lastCall' = [Call(command, d) EXCEPT
                             !.resolved = FALSE, !.spawned = TRUE,
                             !.shellText = ShellText(command), !.process = "running"]
          /\ UNCHANGED files
    /\ UNCHANGED <<forbiddenCommands, lastCheck, parseVars, agentVars>>

ExecuteCommand(command) ==
    Execute(command, DecideTable[forbiddenCommands, command], PlanTable[command])

\* the callback of execFile: the process has ended.  error is null exactly
\* when the process exited with status 0 and no signal ended it; a process
\* that was sent SIGTERM is ended by the signal ("terminated") unless it
\* handles the signal and exits by itself, with status 0 or another.
ProcessExit ==
    /\ ~lastCall.resolved
    /\ currentExecution' = NoExecution
    /\ \E ok \in BOOLEAN, handled \in BOOLEAN :
          /\ handled => lastCall.process = "signalled"
          /\ lastCall.process = "signalled" /\ ~handled => ~ok
          /\ lastCall' = [lastCall EXCEPT
                             !.resolved = TRUE,
                             !.process = IF lastCall.process # "signalled" THEN "exited"
                                         ELSE IF handled THEN "handled" ELSE "terminated",
                             !.result = Result(ok, IF ok THEN Null ELSE "error.message", FALSE, 0)]
    /\ UNCHANGED <<forbiddenCommands, files, lastCheck, parseVars, agentVars>>

\* the mutation: the signal is sent and the reference is kept
KillKeepsReference ==
    /\ currentExecution # NoExecution
    /\ lastCall.process = "running"
    /\ lastCall' = [lastCall EXCEPT !.process = "signalled"]
    /\ UNCHANGED <<currentExecution, forbiddenCommands, files, lastCheck, parseVars, agentVars>>

KillCurrentProcess ==
    /\ currentExecution # NoExecution
    /\ currentExecution' = NoExecution
    /\ lastCall' = [lastCall EXCEPT !.process = "signalled"]
    /\ UNCHANGED <<forbiddenCommands, files, lastCheck, parseVars, agentVars>>

NextExec ==
    \/ \E command \in Commands : ExecuteCommand(command)
    \/ ProcessExit
    \/ KillCurrentProcess

(***************************************************************************)
(* SpecAgents: the CLI after its constructor; the user pushes and pops      *)
(* contexts, the current context executes commands and delegates, the      *)
(* delegated agents take their turns                                       *)
(***************************************************************************)
InitAgents ==
    /\ \E config \in ConfigForbidden, workingDirectory \in WorkingDirs :
          cli = NewCli(workingDirectory, config)
    /\ agentStack = <<CreateAgentContext(cli, DefaultAgentId, TRUE, 0)>>
    /\ runStack = <<>>
    /\ loop = NoLoop
    /\ modelReplies = {}
    /\ ParseIdle
    /\ ExecIdle

\* pushAgentContext(agentId, initialPrompt), from launchAgentFromUserCommand
PushAgentContext(agentId, initialPrompt, now) ==
    /\ loop.pc = "idle" /\ runStack = <<>>
    /\ Len(agentStack) < MaxContexts
    /\ IF agentId \in AgentIds
       THEN /\ agentStack' =
                   Append(agentStack,
                          [CreateAgentContext(cli, agentId, Len(agentStack) = 0, now)
                              EXCEPT !.autoPopOnComplete = initialPrompt])
            /\ cli' = [ApplyContext(cli, agentStack') EXCEPT !.lastLog = "instantiated"]
       ELSE /\ cli' = [cli EXCEPT !.lastLog = "failed to launch"]
            /\ UNCHANGED agentStack
    /\ UNCHANGED <<runStack, loop, modelReplies, parseVars, execVars>>

\* the mutation: the root context is popped as well
PopAnyAgentContext ==
    /\ loop.pc = "idle" /\ runStack = <<>>
    /\ agentStack' = Popped(agentStack)
    /\ cli' = [cli EXCEPT !.lastLog = "returned"]
    /\ UNCHANGED <<runStack, loop, modelReplies, parseVars, execVars>>

\* popAgentContext(), from the /pop command
PopAgentContext ==
    /\ loop.pc = "idle" /\ runStack = <<>>
    /\ IF Len(agentStack) <= 1
       THEN /\ cli' = [cli EXCEPT !.lastLog = "nothing to pop"]
            /\ UNCHANGED agentStack
       ELSE /\ agentStack' = Popped(agentStack)
            /\ cli' = [ApplyContext(cli, agentStack') EXCEPT !.lastLog = "returned"]
    /\ UNCHANGED <<runStack, loop, modelReplies, parseVars, execVars>>

\* finalizeAutoAgentIfNeeded, after the task loop of a pushed context has ended
FinalizeAutoAgentIfNeeded ==
    /\ loop.pc = "idle" /\ runStack = <<>>
    /\ Len(agentStack) > 1
    /\ agentStack[Len(agentStack)].autoPopOnComplete
    /\ agentStack' = Popped(agentStack)
    /\ cli' = [ApplyContext(cli, agentStack') EXCEPT !.lastLog = "completed"]
    /\ UNCHANGED <<runStack, loop, modelReplies, parseVars, execVars>>

\* this.commandExecutor.executeCommand(command) in the current context
ContextExecuteCommand(command) ==
    /\ loop.pc = "idle" /\ runStack = <<>>
    /\ agentStack' = [agentStack EXCEPT ![Len(agentStack)].lastCall =
                         ExecuteOn(agentStack[Len(agentStack)].commandExecutor, command)]
    /\ UNCHANGED <<cli, runStack, loop, modelReplies, parseVars, execVars>>

\* how many listeners of runAgent calls that have ended may stay registered
MaxLeakedListeners == 1

\* launchAgentFromAI(agentId, message), for an agent action of a reply.  The
\* set-up of runAgent throws for an identifier that is not configured, before
\* it registers its listener, and where the file of the system prompt cannot
\* be read (readable is FALSE), after it registered the listener and before
\* the try whose finally unregisters it.
LaunchAgentFromAI(agentId, readable) ==
    /\ loop.pc = "idle" /\ runStack = <<>>
    /\ IF agentId \notin AgentIds
       THEN /\ runStack' = <<>>
            /\ cli' = [cli EXCEPT !.lastLog = "agent failed"]
       ELSE IF ~readable
       THEN /\ Cardinality(cli.interruptController.listeners) <= MaxLeakedListeners
            /\ runStack' = <<>>
            /\ cli' = [OnInterrupt(cli) EXCEPT !.lastLog = "agent failed"]
       ELSE /\ runStack' = LaunchedRunStack(cli, agentStack, agentId)
            /\ cli' = [OnInterrupt(cli) EXCEPT !.lastLog = "delegating"]
    /\ UNCHANGED <<agentStack, loop, modelReplies, parseVars, execVars>>

\* the finally of the runAgent calls that end (unregisterInterrupt(),
\* interruptController.clearInterrupt()) and the line that runAgent or
\* launchAgentFromAI prints when an agent has ended
AgentEnded(c, log, ended) ==
    [c EXCEPT !.lastLog = log,
              !.interruptController.interrupted = FALSE,
              !.interruptController.listeners = @ \ ListenersOf(ended)]

\* checkInterruption of the innermost runAgent
CheckInterruption ==
    runStack[Len(runStack)].interrupted \/ cli.interruptController.interrupted

\* runAgent: the model call of the innermost agent returns a reply, which is
\* parsed, or throws; the error ends every runAgent up to launchAgentFromAI
RunAgentAsk(turn) ==
    /\ runStack # <<>>
    /\ runStack[Len(runStack)].pc = "ask"
    /\ ~CheckInterruption
    /\ IF turn.fails
       THEN /\ runStack' = <<>>
            /\ cli' = AgentEnded(cli, "agent failed", runStack)
       ELSE /\ runStack' = [runStack EXCEPT ![Len(runStack)].pc = "act",
                                            ![Len(runStack)].response = turn.reply,
                                            ![Len(runStack)].pending = turn.actions]
            /\ UNCHANGED cli
    /\ UNCHANGED <<agentStack, loop, modelReplies, parseVars, execVars>>

\* runAgent after the for loop over the actions: the test for the completion
\* sentinel.  The agent that ends returns to the for loop of its caller.
RunAgentEndOfActions ==
    IF ~IsAgentSentinel(runStack[Len(runStack)].response)
    THEN /\ runStack' = [runStack EXCEPT ![Len(runStack)].pc = "ask"]
         /\ UNCHANGED cli
    ELSE IF Len(runStack) = 1
    THEN /\ runStack' = <<>>
         /\ cli' = AgentEnded(cli, "agent completed", runStack)
    ELSE /\ runStack' = [Popped(runStack) EXCEPT
                            ![Len(runStack) - 1].pc = "act",
                            ![Len(runStack) - 1].pending =
                                Tail(runStack[Len(runStack) - 1].pending)]
         /\ cli' = AgentEnded(cli, "agent finished", <<runStack[Len(runStack)]>>)

\* runAgent: the innermost agent processes the next action of its reply
RunAgentAction(action) ==
    IF action.type = "comment"
    THEN /\ runStack' = [runStack EXCEPT ![Len(runStack)].pending = Tail(@)]
         /\ UNCHANGED cli
    ELSE IF action.type = "shell"
    THEN /\ runStack' = [runStack EXCEPT
                            ![Len(runStack)].pending = Tail(@),
                            ![Len(runStack)].lastCall =
                                ExecuteOn(runStack[Len(runStack)].commandExecutor,
                                          action.content)]
         /\ UNCHANGED cli
    ELSE IF action.agentId \in AgentIds
    THEN /\ Len(runStack) < MaxRunDepth
         /\ runStack' =
                Append([runStack EXCEPT ![Len(runStack)].pc = "await"],
                       RunAgentFrame(action.agentId,
                                     runStack[Len(runStack)].depth + 1,
                                     runStack[Len(runStack)].commandExecutor.workingDirectory,
                                     runStack[Len(runStack)],
                                     FreshListener(cli.interruptController.listeners)))
         /\ cli' = [OnInterrupt(cli) EXCEPT !.lastLog = "delegating"]
    ELSE /\ runStack' = <<>>
         /\ cli' = AgentEnded(cli, "agent failed", runStack)

RunAgentAct ==
    /\ runStack # <<>>
    /\ runStack[Len(runStack)].pc = "act"
    /\ IF runStack[Len(runStack)].pending = <<>>
       THEN RunAgentEndOfActions
       ELSE RunAgentAction(Head(runStack[Len(runStack)].pending))
    /\ UNCHANGED <<agentStack, loop, modelReplies, parseVars, execVars>>

\* runAgent: the model call that the interrupt listener aborted throws, or
\* checkInterruption throws: INTERRUPTED_BY_USER ends every runAgent up to
\* launchAgentFromAI, which logs it
RunAgentInterrupted ==
    /\ runStack # <<>>
    /\ runStack[Len(runStack)].pc = "ask"
    /\ CheckInterruption
    /\ runStack' = <<>>
    /\ cli' = AgentEnded(cli, "agent failed", runStack)
    /\ UNCHANGED <<agentStack, loop, modelReplies, parseVars, execVars>>

\* the /agent command of the user, at a time the clock allows
AgentsPush ==
    \E agentId \in RequestedIds, initialPrompt \in BOOLEAN, now \in PushTimes(agentStack) :
        PushAgentContext(agentId, initialPrompt, now)

NextAgents ==
    \/ AgentsPush
    \/ PopAgentContext
    \/ FinalizeAutoAgentIfNeeded
    \/ \E command \in AgentCommands : ContextExecuteCommand(command)
    \/ \E agentId \in RequestedIds : LaunchAgentFromAI(agentId, TRUE)
    \/ \E turn \in AgentTurns : RunAgentAsk(turn)
    \/ RunAgentAct

(***************************************************************************)
(* SpecLoop: one executeTaskLoop in the root context.  Every awaited call   *)
(* returns: the model calls, the shell executions and launchAgentFromAI    *)
(* once its agent has ended.                                               *)
(***************************************************************************)
InitLoop ==
    /\ cli = NewCli("/proj", <<>>)
    /\ agentStack = <<CreateAgentContext(cli, DefaultAgentId, TRUE, 0)>>
    /\ runStack = <<>>
    /\ \E conversation \in InitialConversations :
          loop = [NoLoop EXCEPT !.pc = "start", !.conversation = conversation,
                                !.owner = 1, !.caller = "task", !.base = 1,
                                !.currentPrompt = TaskPrompt]
    /\ modelReplies = LoopActions
    /\ ParseIdle
    /\ ExecIdle

\* executeTaskLoop up to its first await
\* the mutation: executeTaskLoop does not reset the flag of its TaskExecutor
StartTaskLoopFlagKept ==
    /\ loop.pc = "start"
    /\ loop' = NextTurn([loop EXCEPT !.iteration = 1, !.shouldBreak = FALSE,
                                     !.needsCompaction = NeedsCompact(loop.conversation)])
    /\ UNCHANGED <<cli, agentStack, runStack, modelReplies, parseVars, execVars>>

StartTaskLoop ==
    /\ loop.pc = "start"
    /\ loop' = NextTurn([loop EXCEPT !.iteration = 1, !.shouldBreak = FALSE,
                                     !.isInterrupted = FALSE,
                                     !.needsCompaction = NeedsCompact(loop.conversation)])
    /\ UNCHANGED <<cli, agentStack, runStack, modelReplies, parseVars, execVars>>

\* await compactConversationWithAI() returns: the summary of the model, or
\* the fallback when the call throws; nothing happens to ten messages or fewer
CompactReturns(ok) ==
    /\ loop.pc = "compact"
    /\ loop' = IF loop.conversation <= 10
               THEN [loop EXCEPT !.pc = "ask", !.needsCompaction = FALSE]
               ELSE [loop EXCEPT !.pc = "ask", !.needsCompaction = FALSE,
                                 !.compactions = Bump(loop.compactions, CompactionCap),
                                 !.conversation = IF ok THEN CompactedLength(loop.conversation)
                                                  ELSE FallbackLength(loop.conversation)]
    /\ UNCHANGED <<cli, agentStack, runStack, modelReplies, parseVars, execVars>>

\* the catch of the iteration: the error is counted, its message is the next
\* prompt and the loop goes on
Caught(l, message) ==
    NextTurn([l EXCEPT !.asks = l.asks + 1, !.failures = l.failures + 1,
                       !.currentPrompt = ErrorPrompt(message),
                       !.iteration = l.iteration + 1])

\* await askDeepSeek(...) throws an error that is no abort: the catch of the
\* iteration counts it
AskFails ==
    /\ loop.pc = "ask" /\ ~loop.aborted
    /\ loop.failures < MaxAskFailures
    /\ \E message \in {ApiErrorMessage, AbortErrorMessage} : loop' = Caught(loop, message)
    /\ UNCHANGED <<cli, agentStack, runStack, modelReplies, parseVars, execVars>>

\* await askDeepSeek(...) throws the AbortError of the aborted request: an
\* interrupted loop breaks, any other loop has the error caught as above
AskAborted ==
    /\ loop.pc = "ask" /\ loop.aborted
    /\ loop' = IF Interrupted(loop) THEN Break([loop EXCEPT !.asks = loop.asks + 1], "abort")
               ELSE Caught(loop, AbortErrorMessage)
    /\ UNCHANGED <<cli, agentStack, runStack, modelReplies, parseVars, execVars>>

\* the reply is parsed: without actions the iteration ends (continue), else
\* the for loop over the actions is entered
Parsed(l) ==
    IF l.pending = <<>>
    THEN NextTurn([l EXCEPT !.currentPrompt = NeedCommandPrompt,
                            !.iteration = l.iteration + 1])
    ELSE [l EXCEPT !.pc = "act"]

\* await askDeepSeek(...) returns a reply: the prompt and the reply are added
\* to the conversation; an interrupted loop breaks, else the reply is parsed
Replied(l, turn) ==
    [l EXCEPT !.asks = l.asks + 1,
              !.conversation = l.conversation + 2,
              !.needsCompaction = l.needsCompaction \/ NeedsCompact(l.conversation + 2),
              !.response = turn.reply,
              !.currentPrompt = <<>>,
              !.first = IF l.asks = 0 /\ l.caller = "push" THEN turn.reply ELSE l.first,
              !.pending = turn.actions]

AskReturns(reply) ==
    /\ loop.pc = "ask" /\ ~loop.aborted
    /\ loop' = IF Interrupted(loop) THEN Break(Replied(loop, reply), "interrupt")
               ELSE Parsed(Replied(loop, reply))
    /\ UNCHANGED <<cli, agentStack, runStack, modelReplies, parseVars, execVars>>

\* the prompt chosen after the for loop
NextPrompt(l) ==
    IF l.executedSomething /\ l.lastSummaryPrompt # <<>> THEN l.lastSummaryPrompt
    ELSE IF ~l.executedSomething THEN NeedWrappedCommandPrompt
    ELSE CommandHandledPrompt

\* the for loop has no action left: the iteration ends
EndOfActions ==
    /\ loop.pc = "act" /\ loop.pending = <<>>
    /\ loop' = NextTurn([loop EXCEPT
                            !.currentPrompt = NextPrompt(loop),
                            !.needsCompaction =
                                loop.needsCompaction \/ NeedsCompact(loop.conversation),
                            !.iteration = loop.iteration + 1])
    /\ UNCHANGED <<cli, agentStack, runStack, modelReplies, parseVars, execVars>>

\* a comment action is printed
CommentAction ==
    /\ loop.pc = "act" /\ loop.pending # <<>>
    /\ Head(loop.pending).type = "comment"
    /\ loop' = [loop EXCEPT !.pending = Tail(loop.pending)]
    /\ UNCHANGED <<cli, agentStack, runStack, modelReplies, parseVars, execVars>>

\* an agent action, or a shell action that handleSpecialCommand takes:
\* await cliInstance.launchAgentFromAI(agentId, message) is entered
DelegateAction ==
    /\ loop.pc = "act" /\ loop.pending # <<>>
    /\ LET action == Head(loop.pending)
           special == IF action.type = "shell" THEN SpecialCommandMatch(action.content)
                      ELSE [matched |-> FALSE, agentId |-> <<>>]
           agentId == IF action.type = "agent" THEN action.agentId ELSE special.agentId
       IN  /\ action.type = "agent" \/ special.matched
           /\ runStack' = LaunchedRunStack(cli, agentStack, agentId)
           /\ cli' = IF agentId \in AgentIds
                     THEN [OnInterrupt(cli) EXCEPT !.lastLog = "delegating"]
                     ELSE [cli EXCEPT !.lastLog = "agent failed"]
           /\ loop' = [loop EXCEPT !.pc = "delegated"]
    /\ UNCHANGED <<agentStack, modelReplies, parseVars, execVars>>

\* what the loop does when launchAgentFromAI has returned: an agent action
\* leaves an entry in the command history; a shell action that
\* handleSpecialCommand took leaves none
Delegated(l) ==
    IF Head(l.pending).type = "agent"
    THEN [l EXCEPT !.pc = "act",
                   !.pending = Tail(l.pending),
                   !.executedSomething = TRUE,
                   !.history = Bump(l.history, HistoryCap),
                   !.lastEntry = DelegationEntry(Head(l.pending)),
                   !.lastSummaryPrompt = DelegatedPrompt(Head(l.pending).agentId)]
    ELSE [l EXCEPT !.pc = "act",
                   !.pending = Tail(l.pending),
                   !.executedSomething = TRUE,
                   !.lastSummaryPrompt = AgentCommandHandledPrompt]

\* the mutation: the loop goes on while the delegated agent is running
DelegateReturnsEarly ==
    /\ loop.pc = "delegated"
    /\ loop' = Delegated(loop)
    /\ UNCHANGED <<cli, agentStack, runStack, modelReplies, parseVars, execVars>>

\* launchAgentFromAI has returned (its agent ended, or could not be started)
DelegateReturns ==
    /\ loop.pc = "delegated" /\ runStack = <<>>
    /\ loop' = Delegated(loop)
    /\ UNCHANGED <<cli, agentStack, runStack, modelReplies, parseVars, execVars>>

\* this.commandExecutor of the TaskExecutor that runs the loop
LoopExecutor ==
    IF loop.owner <= Len(agentStack) THEN agentStack[loop.owner].commandExecutor
    ELSE NewCommandExecutor(cli.workingDirectory, cli.forbiddenCommands)

\* executeCommand(content) has resolved with result: the messages for the two
\* errors are added, an interrupted loop breaks, else the command history
\* gets an entry and the summary of the command is the prompt to come
\* the mutation: the summary of the first command of a reply is kept
AfterCommandFirstSummary(l, result) ==
    LET said == [l EXCEPT !.process = "none",
                          !.executedSomething = TRUE,
                          !.conversation =
                              IF result.error \in {"COMMAND_TOO_LONG", "UNTERMINATED_HEREDOC"}
                              THEN l.conversation + 1 ELSE l.conversation]
    IN  IF Interrupted(l) THEN Break(said, "interrupt")
        ELSE [said EXCEPT !.pc = "act", !.pending = Tail(l.pending),
                          !.history = Bump(l.history, HistoryCap),
                          !.lastEntry = [command |-> l.lastCall.command,
                                         success |-> result.success,
                                         output |-> <<>>],
                          !.lastSummaryPrompt =
                              IF l.lastSummaryPrompt # <<>> THEN l.lastSummaryPrompt
                              ELSE CreateSummaryPrompt(l.lastCall.command, result.success,
                                                       <<>>, result.error)]

AfterCommand(l, result) ==
    LET said == [l EXCEPT !.process = "none",
                          !.executedSomething = TRUE,
                          !.conversation =
                              IF result.error \in {"COMMAND_TOO_LONG", "UNTERMINATED_HEREDOC"}
                              THEN l.conversation + 1 ELSE l.conversation]
    IN  IF Interrupted(l) THEN Break(said, "interrupt")
        ELSE [said EXCEPT !.pc = "act", !.pending = Tail(l.pending),
                          !.history = Bump(l.history, HistoryCap),
                          !.lastEntry = [command |-> l.lastCall.command,
                                         success |-> result.success,
                                         output |-> <<>>],
                          !.lastSummaryPrompt =
                              CreateSummaryPrompt(l.lastCall.command, result.success,
                                                  <<>>, result.error)]

\* the mutation: the loop does not await the child process of the command
ShellExecutedNotAwaited(content, d) ==
    /\ UNCHANGED agentStack
    /\ loop' = IF d.step = "spawn"
               THEN [loop EXCEPT !.pending = Tail(loop.pending), !.process = "running",
                                 !.lastCall = AgentCall(content, d)]
               ELSE AfterCommand([loop EXCEPT !.lastCall = AgentCall(content, d)],
                                 d.result)

\* a shell action that is no sentinel: executeCommand(content) is awaited (d is
\* what it decides).  A command that is handed to the shell leaves the loop
\* waiting for its child process; any other call resolves at once.
ShellExecuted(content, d) ==
    /\ UNCHANGED agentStack
    /\ loop' = IF d.step = "spawn"
               THEN [loop EXCEPT !.pc = "exec", !.process = "running",
                                 !.lastCall = AgentCall(content, d)]
               ELSE AfterCommand([loop EXCEPT !.lastCall = AgentCall(content, d)],
                                 d.result)

\* a shell action that handleSpecialCommand does not take: the pause/exit
\* sentinel breaks the loop, any other command is executed
ShellContent(content) ==
    /\ ~SpecialCommandMatch(content).matched
    /\ IF IsLoopSentinel(content)
       THEN /\ loop' = Break([loop EXCEPT !.executedSomething = TRUE],
                             IF ToLowerCase(content) = PauseWord THEN "pause" ELSE "exit")
            /\ UNCHANGED agentStack
       ELSE ShellExecuted(content, DecideReply(LoopExecutor.forbiddenCommands, content))

ShellAction ==
    /\ loop.pc = "act" /\ loop.pending # <<>>
    /\ Head(loop.pending).type = "shell"
    /\ ShellContent(Head(loop.pending).content)
    /\ UNCHANGED <<cli, runStack, modelReplies, parseVars, execVars>>

\* the child process of the awaited executeCommand has ended, by itself or by
\* the signal of killCurrentProcess: with status 0 (ok) or with an error
ShellReturns(ok) ==
    /\ loop.pc = "exec"
    /\ loop' = AfterCommand(loop, Result(ok, IF ok THEN Null ELSE "error.message", FALSE, 0))
    /\ UNCHANGED <<cli, agentStack, runStack, modelReplies, parseVars, execVars>>

\* the replies given to the agent that the loop delegates to
LoopAgentTurns == {AgentTurn(r) : r \in {<<"o", "k">>, <<"d", "o", "n", "e">>, <<">", ">", ">", "d", "o", "n", "e", "<", "<", "<">>}}

\* the replies to the model calls of the loop of SpecLoop
LoopAskReturns ==
    \E reply \in (IF loop.asks < MaxVariedReplies THEN modelReplies ELSE LateReplies) :
        AskReturns(reply)

NextLoop ==
    \/ StartTaskLoop
    \/ \E ok \in BOOLEAN : CompactReturns(ok)
    \/ AskFails
    \/ LoopAskReturns
    \/ EndOfActions
    \/ CommentAction
    \/ DelegateAction
    \/ DelegateReturns
    \/ ShellAction
    \/ \E ok \in BOOLEAN : ShellReturns(ok)
    \/ \E turn \in LoopAgentTurns : RunAgentAsk(turn)
    \/ RunAgentAct

(***************************************************************************)
(* SpecSession: startInteractiveSession.  The user gives tasks, pushes and  *)
(* pops contexts and presses the interrupt key while a task loop awaits.   *)
(***************************************************************************)
\* how many task loops a session starts, and how many model calls a loop makes
MaxTasks == 1
MaxSessionAsks == 2

\* the bound on the depth of the agent stack of a session
MaxSessionContexts == 3

\* the replies of the model to the task loops of a session
SessionReplies ==
    { <<"d", "o", "n", "e">>, <<">", ">", ">", "p", "a", "u", "s", "e", "<", "<", "<">>, <<">", ">", ">", "l", "s", " ", "-", "l", "a", "<", "<", "<">>, <<"a", "g", "e", "n", "t", " ", "G", "h", "o", "s", "t", ":", " ", "g", "o">>,
      <<"a", "g", "e", "n", "t", " ", "H", "e", "l", "p", "e", "r", ":", " ", "g", "o", "\n", ">", ">", ">", "l", "s", " ", "-", "l", "a", "<", "<", "<">> }

\* the replies given to the agents that the loops of a session delegate to
SessionAgentTurns ==
    {AgentTurn(r) : r \in {<<"o", "k">>, <<"d", "o", "n", "e">>, <<"a", "g", "e", "n", "t", " ", "H", "e", "l", "p", "e", "r", ":", " ", "g", "o">>}}

InitSession ==
    /\ \E conversation \in InitialConversations :
          /\ cli = NewCli("/proj", <<>>)
          /\ agentStack = <<[CreateAgentContext(cli, DefaultAgentId, TRUE, 0)
                                EXCEPT !.conversation = conversation]>>
    /\ runStack = <<>>
    /\ loop = NoLoop
    /\ modelReplies = {LoopTurn(r) : r \in SessionReplies}
    /\ ParseIdle
    /\ ExecIdle

\* the default branch of the session loop: executeTaskLoop(input, ...) in the
\* current context, in a session of at most cap tasks
UserTaskWithin(cap) ==
    /\ loop.pc = "idle" /\ runStack = <<>>
    /\ cli.tasks < cap
    /\ loop' = [NoLoop EXCEPT !.pc = "start", !.owner = Len(agentStack),
                              !.caller = "task", !.base = Len(agentStack),
                              !.currentPrompt = TaskPrompt,
                              !.isInterrupted =
                                  agentStack[Len(agentStack)].taskExecutor.isInterrupted,
                              !.conversation = agentStack[Len(agentStack)].conversation]
    /\ cli' = [cli EXCEPT !.tasks = cli.tasks + 1, !.lastLog = "task"]
    /\ UNCHANGED <<agentStack, runStack, modelReplies, parseVars, execVars>>

UserTask == cli.tasks < MaxTasks /\ UserTaskWithin(MaxTasks)

\* the mutation: the catch pops the top context whatever it is
RolledBackAlways(c, stack, agentId) ==
    IF Len(stack) > 1 THEN Popped(stack) ELSE stack

\* the catch of launchAgentFromUserCommand: the context of the agent that
\* failed is popped when it is the current one
RolledBack(c, stack, agentId) ==
    IF Len(stack) > 1 /\ c.currentAgentId = agentId THEN Popped(stack) ELSE stack

\* launchAgentFromUserCommand(agentId, message), from the /agent command:
\* pushAgentContext up to its await of executeTaskLoop.  createAgentContext
\* throws for an identifier that is not configured.
LaunchAgentWithin(agentId, initialPrompt, now, cap) ==
    /\ loop.pc = "idle" /\ runStack = <<>>
    /\ Len(agentStack) < MaxSessionContexts
    /\ initialPrompt => cli.tasks < cap
    /\ IF agentId \notin AgentIds
       THEN /\ agentStack' = RolledBack(cli, agentStack, agentId)
            /\ cli' = [ApplyContext(cli, agentStack') EXCEPT !.lastLog = "failed to launch"]
            /\ UNCHANGED loop
       ELSE /\ agentStack' =
                   Append(agentStack,
                          [CreateAgentContext(cli, agentId, Len(agentStack) = 0, now)
                              EXCEPT !.autoPopOnComplete = initialPrompt])
            /\ cli' = [ApplyContext(cli, agentStack') EXCEPT
                                  !.lastLog = "instantiated",
                                  !.tasks = IF initialPrompt THEN cli.tasks + 1 ELSE cli.tasks]
            /\ loop' = IF initialPrompt
                       THEN [NoLoop EXCEPT !.pc = "start", !.owner = Len(agentStack) + 1,
                                           !.caller = "push", !.base = Len(agentStack),
                                           !.currentPrompt = TaskPrompt]
                       ELSE loop
    /\ UNCHANGED <<runStack, modelReplies, parseVars, execVars>>

LaunchAgentFromUserCommand(agentId, initialPrompt, now) ==
    LaunchAgentWithin(agentId, initialPrompt, now, MaxTasks)

\* the flag of the TaskExecutor of the i-th context: the loop that runs in
\* the context holds it, and the context keeps what the flag was when the
\* loop was called
TaskExecutorInterrupted(i) ==
    IF i = loop.owner /\ loop.pc # "idle" THEN loop.isInterrupted
    ELSE agentStack[i].taskExecutor.isInterrupted

\* the conversation of the i-th context: the loop that runs in it holds it
ConversationOf(i) ==
    IF i = loop.owner /\ loop.pc # "idle" THEN loop.conversation
    ELSE agentStack[i].conversation

\* interruptController.triggerInterrupt(), while a task loop awaits the
\* compaction, a model call, a child process or a delegated agent that awaits
\* its model call.  handleInterruptSignal asks every context to stop and to
\* kill its process, aborts the request of currentAIRequestAbortController,
\* and cleanupAgentStack pops and archives the contexts above the root and
\* resets isInterrupted; then the listener of every runAgent sets its flag and
\* aborts its request.
TriggerInterrupt ==
    /\ ~cli.interruptController.interrupted
    /\ \/ loop.pc \in {"compact", "ask", "exec"}
       \/ /\ loop.pc = "delegated"
          /\ runStack # <<>>
          /\ runStack[Len(runStack)].pc = "ask"
    /\ LET onStack == loop.owner <= Len(agentStack)
           nonEmpty == Cardinality({i \in 2..Len(agentStack) : ConversationOf(i) > 0})
       IN  /\ cli' = [ApplyContext(cli, <<agentStack[1]>>) EXCEPT
                         !.interruptController.interrupted = TRUE,
                         !.isInterrupted = FALSE,
                         !.lastLog = "interrupted",
                         !.lastInterrupt =
                             [stack |-> Len(agentStack),
                              stopped |-> 1..Len(agentStack),
                              killed |-> 1..Len(agentStack),
                              inFlight |-> loop.pc = "exec" /\ onStack,
                              signalled |-> loop.pc = "exec" /\ onStack,
                              asking |-> \/ loop.pc \in {"ask", "delegated"}
                                         \/ loop.pc = "compact" /\ loop.conversation > 10,
                              aborted |-> loop.pc \in {"ask", "delegated"},
                              nonEmpty |-> nonEmpty,
                              archived |-> nonEmpty]]
           /\ loop' = [loop EXCEPT
                          !.isInterrupted = @ \/ onStack,
                          !.aborted = loop.pc = "ask",
                          !.process = IF loop.pc = "exec" /\ onStack THEN "signalled" ELSE @,
                          !.delivered = @ \/ loop.pc \in {"delegated", "exec"}]
    /\ agentStack' = <<[agentStack[1] EXCEPT
                           !.taskExecutor.isInterrupted = @ \/ loop.owner # 1]>>
    /\ runStack' = [j \in 1..Len(runStack) |-> [runStack[j] EXCEPT !.interrupted = TRUE]]
    /\ UNCHANGED <<modelReplies, parseVars, execVars>>

\* executeTaskLoop has returned.  pushAgentContext goes on to
\* finalizeAutoAgentIfNeeded unless isInterrupted is set; the conversation
\* stays with the context of the loop; the session loop clears the interrupt
\* flags and prompts (the record of the last interrupt goes with them).
ReturnToPrompt ==
    /\ loop.pc = "done"
    /\ LET autoPop == /\ loop.caller = "push" /\ ~cli.isInterrupted
                      /\ Len(agentStack) > 1
                      /\ agentStack[Len(agentStack)].autoPopOnComplete
           stack == IF autoPop THEN Popped(agentStack) ELSE agentStack
       IN  /\ agentStack' = IF loop.owner <= Len(stack)
                            THEN [stack EXCEPT ![loop.owner].conversation = loop.conversation,
                                               ![loop.owner].taskExecutor.isInterrupted = FALSE]
                            ELSE stack
           /\ cli' = [(IF autoPop THEN ApplyContext(cli, stack) ELSE cli) EXCEPT
                                 !.isInterrupted = FALSE,
                                 !.interruptController.interrupted = FALSE,
                                 !.lastInterrupt = NoInterrupt,
                                 !.lastLog = IF autoPop THEN "completed" ELSE "prompt"]
    /\ loop' = NoLoop
    /\ UNCHANGED <<runStack, modelReplies, parseVars, execVars>>

\* the model calls of a session, bounded
SessionAsk ==
    /\ loop.asks < MaxSessionAsks
    /\ \/ AskFails
       \/ \E reply \in modelReplies : AskReturns(reply)

\* the /agent command of the user, a millisecond at least after the
\* creation of the current context
SessionLaunchAgent ==
    \E agentId \in RequestedIds, initialPrompt \in BOOLEAN, now \in LaterTimes(agentStack) :
        LaunchAgentFromUserCommand(agentId, initialPrompt, now)

NextSession ==
    \/ UserTask
    \/ SessionLaunchAgent
    \/ PopAgentContext
    \/ StartTaskLoop
    \/ \E ok \in BOOLEAN : CompactReturns(ok)
    \/ SessionAsk
    \/ AskAborted
    \/ EndOfActions
    \/ CommentAction
    \/ DelegateAction
    \/ DelegateReturns
    \/ ShellAction
    \/ \E ok \in BOOLEAN : ShellReturns(ok)
    \/ \E turn \in SessionAgentTurns : RunAgentAsk(turn)
    \/ RunAgentAct
    \/ RunAgentInterrupted
    \/ TriggerInterrupt
    \/ ReturnToPrompt

(***************************************************************************)
(* SpecTasks: a session of several tasks, each answered by the model with  *)
(* the reply that ends it; the user gives tasks to the current context and *)
(* to agents pushed with an initial prompt, and interrupts them.           *)
(***************************************************************************)
MaxSessionTasks == 2

TasksReplies == { <<">", ">", ">", "p", "a", "u", "s", "e", "<", "<", "<">> }

InitTasks ==
    /\ \E conversation \in InitialConversations :
          /\ cli = NewCli("/proj", <<>>)
          /\ agentStack = <<[CreateAgentContext(cli, DefaultAgentId, TRUE, 0)
                                EXCEPT !.conversation = conversation]>>
    /\ runStack = <<>>
    /\ loop = NoLoop
    /\ modelReplies = {LoopTurn(r) : r \in TasksReplies}
    /\ ParseIdle
    /\ ExecIdle

TasksUserTask == cli.tasks < MaxSessionTasks /\ UserTaskWithin(MaxSessionTasks)

TasksLaunchAgent ==
    \E agentId \in RequestedIds, initialPrompt \in BOOLEAN, now \in LaterTimes(agentStack) :
        LaunchAgentWithin(agentId, initialPrompt, now, MaxSessionTasks)

NextTasks ==
    \/ TasksUserTask
    \/ TasksLaunchAgent
    \/ PopAgentContext
    \/ StartTaskLoop
    \/ \E ok \in BOOLEAN : CompactReturns(ok)
    \/ SessionAsk
    \/ AskAborted
    \/ ShellAction
    \/ TriggerInterrupt
    \/ ReturnToPrompt

(***************************************************************************)
(* SpecInterrupts: an InterruptController by itself.  Callbacks are        *)
(* registered and unregistered, the controller is started, stopped, paused *)
(* and resumed, keys arrive on the standard input, and the interrupt is    *)
(* cleared.  The controller is the field interruptController of cli; with  *)
(* the fields of the class it carries the callbacks invoked since the last *)
(* clearInterrupt, in the order of the calls, and the number of keys       *)
(* received.                                                               *)
(***************************************************************************)
MaxListeners == 2
MaxKeys == 2

\* the callbacks handed to onInterrupt: some throw when they are called
Callbacks == {[id |-> i, throws |-> t] : i \in 1..MaxListeners, t \in BOOLEAN}

\* what the standard input delivers: the escape key and another key
Keys == {"escape", "a"}

\* new InterruptController()
NewInterruptController(isTTY) ==
    [listeners |-> <<>>, isActive |-> FALSE, paused |-> FALSE, interrupted |-> FALSE,
     isTTY |-> isTTY, invoked |-> <<>>, keys |-> 0]

\* the mutation: the error of a callback leaves the loop over the listeners
PropagatesThrown(callback) == callback.throws

\* try { listener(); } catch (error) {}: no error of a callback leaves the
\* loop over the listeners
Propagates(callback) == FALSE

\* for (const listener of this.listeners): the callbacks called, from the
\* i-th of the Set on, in the order of their insertion
RECURSIVE CalledFrom(_, _)
CalledFrom(listeners, i) ==
    IF i > Len(listeners) THEN <<>>
    ELSE IF Propagates(listeners[i]) THEN <<listeners[i]>>
    ELSE <<listeners[i]>> \o CalledFrom(listeners, i + 1)

\* triggerInterrupt()
TriggerInterruptOf(controller) ==
    IF controller.interrupted THEN controller
    ELSE [controller EXCEPT !.interrupted = TRUE,
                            !.invoked = @ \o CalledFrom(controller.listeners, 1)]

\* the controller, changed, and nothing else
ControllerBecomes(controller) ==
    /\ cli' = [cli EXCEPT !.interruptController = controller]
    /\ UNCHANGED <<agentStack, runStack, loop, modelReplies, parseVars, execVars>>

InitInterrupts ==
    /\ \E isTTY \in BOOLEAN :
          cli = [NoCli EXCEPT !.interruptController = NewInterruptController(isTTY)]
    /\ agentStack = <<>> /\ runStack = <<>> /\ loop = NoLoop /\ modelReplies = {}
    /\ ParseIdle
    /\ ExecIdle

\* start()
Start ==
    /\ ~cli.interruptController.isActive
    /\ ControllerBecomes([cli.interruptController EXCEPT !.isActive = TRUE])

\* stop()
Stop ==
    /\ cli.interruptController.isActive
    /\ ControllerBecomes([cli.interruptController EXCEPT !.isActive = FALSE])

\* handleKeypress(str, key), the handler of the keypress events of a terminal
HandleKeypress(key) ==
    /\ cli.interruptController.isActive /\ cli.interruptController.isTTY
    /\ cli.interruptController.keys < MaxKeys
    /\ LET received == [cli.interruptController EXCEPT !.keys = @ + 1]
       IN  ControllerBecomes(IF received.paused \/ key # "escape" THEN received
                             ELSE TriggerInterruptOf(received))

\* handleData(chunk), the handler of the data events of a standard input
\* that is no terminal
HandleData(chunk) ==
    /\ cli.interruptController.isActive /\ ~cli.interruptController.isTTY
    /\ cli.interruptController.keys < MaxKeys
    /\ LET received == [cli.interruptController EXCEPT !.keys = @ + 1]
       IN  ControllerBecomes(IF received.paused \/ chunk # "escape" THEN received
                             ELSE TriggerInterruptOf(received))

\* clearInterrupt()
ClearInterrupt ==
    /\ cli.interruptController.interrupted \/ cli.interruptController.keys > 0
    /\ ControllerBecomes([cli.interruptController EXCEPT !.interrupted = FALSE,
                                                         !.invoked = <<>>,
                                                         !.keys = 0])

\* onInterrupt(callback): this.listeners.add(callback)
ControllerOnInterrupt(callback) ==
    /\ Len(cli.interruptController.listeners) < MaxListeners
    /\ callback \notin Range(cli.interruptController.listeners)
    /\ ControllerBecomes([cli.interruptController EXCEPT !.listeners = Append(@, callback)])

\* the function that onInterrupt returned: this.listeners.delete(callback)
Unregister(callback) ==
    /\ callback \in Range(cli.interruptController.listeners)
    /\ ControllerBecomes([cli.interruptController EXCEPT
                             !.listeners = SelectSeq(@, LAMBDA l : l # callback)])

\* pause()
Pause ==
    /\ ~cli.interruptController.paused
    /\ ControllerBecomes([cli.interruptController EXCEPT !.paused = TRUE])

\* resume()
Resume ==
    /\ cli.interruptController.paused
    /\ ControllerBecomes([cli.interruptController EXCEPT !.paused = FALSE])

NextInterrupts ==
    \/ Start
    \/ Stop
    \/ \E key \in Keys : HandleKeypress(key)
    \/ \E chunk \in Keys : HandleData(chunk)
    \/ ClearInterrupt
    \/ \E callback \in Callbacks : ControllerOnInterrupt(callback)
    \/ \E callback \in Callbacks : Unregister(callback)
    \/ Pause
    \/ Resume

(***************************************************************************)
(* SpecContexts: the contexts of a session in which no task is given.  The *)
(* user pushes agents without an initial prompt, as fast as the clock      *)
(* allows, and pops them; the current context delegates to agents.         *)
(***************************************************************************)
ContextsLaunchAgent ==
    \E agentId \in RequestedIds, now \in PushTimes(agentStack) :
        LaunchAgentFromUserCommand(agentId, FALSE, now)

NextContexts ==
    \/ ContextsLaunchAgent
    \/ PopAgentContext
    \/ \E agentId \in RequestedIds, readable \in BOOLEAN : LaunchAgentFromAI(agentId, readable)
    \/ \E turn \in SessionAgentTurns : RunAgentAsk(turn)
    \/ RunAgentAct

vars == <<parseVars, execVars, agentVars>>

SpecParse == InitParse /\ [][NextParse]_vars
SpecForbidden == InitExec /\ [][NextForbidden]_vars
SpecExec == InitExec /\ [][NextExec]_vars
\* SpecExec where every child process ends: by itself, by the signal, or by
\* the timeout of execFile
SpecExecFair == SpecExec /\ WF_vars(ProcessExit)
SpecAgents == InitAgents /\ [][NextAgents]_vars
SpecLoop == InitLoop /\ [][NextLoop]_vars /\ WF_vars(NextLoop)
SpecSession == InitSession /\ [][NextSession]_vars
SpecContexts == InitSession /\ [][NextContexts]_vars
SpecTasks == InitTasks /\ [][NextTasks]_vars
SpecInterrupts == InitInterrupts /\ [][NextInterrupts]_vars
(***************************************************************************)
(* Claims about parseAIResponse (SpecParse)                                *)
(***************************************************************************)
Blocks(segs) == SelectSeq(segs, LAMBDA seg : seg.kind = "block")

\* the trimmed interior of each marker pair of the reply, in document order
TrimmedInteriors(segs) == [i \in 1..Len(Blocks(segs)) |-> Trim(Blocks(segs)[i].text)]

HasParsed == parsed.type # "none"

\* C1 as stated: a reply with N well-formed >>> ... <<< pairs yields exactly N
\* commands, the i-th being the trimmed text between the i-th pair.
C1_EveryPairIsACommand ==
    HasParsed => parsed.commands = TrimmedInteriors(replySegments)

\* C1 amended: the commands are the trimmed interiors of the pairs whose
\* interior is not blank, in document order; a pair with an empty or blank
\* interior yields no command.
C1_NonBlankPairsAreCommands ==
    HasParsed =>
        parsed.commands = SelectSeq(TrimmedInteriors(replySegments), LAMBDA t : t # <<>>)

\* C1 witness: chat, a pair spanning several lines and a blank pair have been parsed
C1_Witness ==
    /\ HasParsed
    /\ Len(Blocks(replySegments)) = 2
    /\ replySegments[1].kind = "chat"
    /\ \E i \in 1..2 : TrimmedInteriors(replySegments)[i] = <<>>
    /\ \E i \in 1..2 : "\n" \in Range(TrimmedInteriors(replySegments)[i])
    /\ Len(parsed.commands) = 1

\* the parsed reply has an action of type t
HasAction(t) == \E i \in 1..Len(parsed.actions) : parsed.actions[i].type = t

\* the reply is chat text only and the word agent is nowhere in it
PlainChat(segs) ==
    \A i \in 1..Len(segs) :
        /\ segs[i].kind = "chat"
        /\ IndexOf(ToLowerCase(segs[i].text), AgentWord, 1) = 0

\* C28: the type of a parsed reply is command when it has a shell action,
\* else agent when it has a delegation, else comment; a reply without
\* markers and without a delegation line is a comment and has no command.
C28_TypeByPrecedence ==
    HasParsed =>
        /\ parsed.type = IF HasAction("shell") THEN "command"
                         ELSE IF HasAction("agent") THEN "agent"
                         ELSE "comment"
        /\ PlainChat(replySegments) =>
              /\ parsed.type = "comment"
              /\ parsed.commands = <<>>
              /\ parsed.command = Null

\* C28 witness: a reply with chat, a delegation and a command is a command
C28_Witness ==
    /\ HasParsed
    /\ HasAction("comment") /\ HasAction("agent") /\ HasAction("shell")
    /\ parsed.actions[1].type = "agent"
    /\ parsed.type = "command"

\* the reply ends with an opening marker and has no closing marker
Dangling(segs) ==
    /\ segs # <<>>
    /\ segs[Len(segs)].kind = "open"
    /\ \A i \in 1..(Len(segs) - 1) : segs[i].kind = "chat"

\* the text of the reply before its last segment
BeforeLast(segs) == ReplyText(SubSeq(segs, 1, Len(segs) - 1))

\* C29: a reply with an opening marker and no closing marker is parsed:
\* the diagnostics hold one unclosed block, at the marker; there is no
\* command; the text from the marker on is returned as chat and delegation
\* actions, after the actions of the text before it.
C29_UnclosedBlockIsChat ==
    HasParsed /\ Dangling(replySegments) =>
        /\ Len(parsed.diagnostics.unclosedBlocks) = 1
        /\ parsed.diagnostics.unclosedBlocks[1].startIndex = Len(BeforeLast(replySegments))
        /\ parsed.diagnostics.unclosedBlocks[1].preview =
               SegmentText(replySegments[Len(replySegments)])
        /\ parsed.commands = <<>> /\ parsed.command = Null
        /\ ~HasAction("shell")
        /\ parsed.actions = AppendChatSegment(BeforeLast(replySegments))
                            \o AppendChatSegment(SegmentText(replySegments[Len(replySegments)]))
        /\ LET first == Len(AppendChatSegment(BeforeLast(replySegments))) + 1
           IN  /\ Len(parsed.actions) >= first
               /\ parsed.actions[first].type = "comment"
               /\ StartsWith(parsed.actions[first].content, OpenMarker)

\* C29 witness: chat, then an opening marker with a delegation line after it
C29_Witness ==
    /\ HasParsed /\ Dangling(replySegments)
    /\ Len(replySegments) = 2
    /\ Len(parsed.actions) = 3
    /\ parsed.actions[3].type = "agent"
    /\ parsed.type = "agent"
(***************************************************************************)
(* Claims about isCommandForbidden (SpecForbidden)                         *)
(***************************************************************************)
RmRfRoot == <<"r", "m", " ", "-", "r", "f", " ", "/">>

\* the cleaned text of a command: cut at the first #, trimmed, lower-cased
Cleaned(command) == ToLowerCase(Trim(Split(command, "#")[1]))

IsPrefixOf(prefix, text) == \E n \in 0..Len(text) : SubSeq(text, 1, n) = prefix

\* C3 as stated: a command is matched only when its cleaned text equals a
\* forbidden entry or starts with an entry immediately followed by a space.
C3_MatchOnlyAtWordBoundary ==
    (lastCheck.asked /\ lastCheck.forbidden) =>
        \E f \in forbiddenCommands :
            \/ Cleaned(lastCheck.command) = f
            \/ IsPrefixOf(f \o <<" ">>, Cleaned(lastCheck.command))

\* C3 amended: a command is matched exactly when its cleaned text starts with
\* a forbidden entry, whatever follows the entry; with the entry `rm -rf /`
\* the commands `rm -rf /tmp/foo`, `rm -rf /etc`, `rm -rf /` and
\* `rm -rf / extra` are all forbidden.
C3_MatchOnAnyPrefix ==
    lastCheck.asked =>
        /\ lastCheck.forbidden <=>
               \E f \in forbiddenCommands : IsPrefixOf(f, Cleaned(lastCheck.command))
        /\ (/\ RmRfRoot \in forbiddenCommands
            /\ lastCheck.command \in {<<"r", "m", " ", "-", "r", "f", " ", "/", "t", "m", "p", "/", "f", "o", "o">>, <<"r", "m", " ", "-", "r", "f", " ", "/", "e", "t", "c">>, <<"r", "m", " ", "-", "r", "f", " ", "/">>,
                                      <<"r", "m", " ", "-", "r", "f", " ", "/", " ", "e", "x", "t", "r", "a">>})
               => lastCheck.forbidden

\* C3 witness: `rm -rf /tmp/foo` was checked against a set holding `rm -rf /`
C3_Witness ==
    /\ lastCheck.asked
    /\ lastCheck.command = <<"r", "m", " ", "-", "r", "f", " ", "/", "t", "m", "p", "/", "f", "o", "o">>
    /\ RmRfRoot \in forbiddenCommands
    /\ lastCheck.forbidden

\* C4: with `rm -rf /` forbidden, `rm -rf /; echo hi` is forbidden, and so is
\* every command in which a forbidden entry is followed directly by `;`.
C4_EntryThenSeparatorIsForbidden ==
    lastCheck.asked =>
        /\ (RmRfRoot \in forbiddenCommands /\ lastCheck.command = <<"r", "m", " ", "-", "r", "f", " ", "/", ";", " ", "e", "c", "h", "o", " ", "h", "i">>)
               => lastCheck.forbidden
        /\ (\E f \in forbiddenCommands :
               IsPrefixOf(f \o <<";">>, ToLowerCase(TrimStart(lastCheck.command))))
               => lastCheck.forbidden

\* C4 witness: `rm -rf /; echo hi` was checked against a set holding `rm -rf /`
C4_Witness ==
    /\ lastCheck.asked
    /\ lastCheck.command = <<"r", "m", " ", "-", "r", "f", " ", "/", ";", " ", "e", "c", "h", "o", " ", "h", "i">>
    /\ RmRfRoot \in forbiddenCommands
    /\ lastCheck.forbidden

\* C5: with the list [`rm -rf /`, `chmod -R 000 /`] a command is forbidden
\* exactly when it begins with one of the two entries (letter case and leading
\* blanks aside), further path characters after the entry included.
C5_TestListForbidsByPrefix ==
    (lastCheck.asked /\ forbiddenCommands = NewForbiddenSet(TestForbidden)) =>
        /\ lastCheck.forbidden <=>
               \E f \in {<<"r", "m", " ", "-", "r", "f", " ", "/">>, <<"c", "h", "m", "o", "d", " ", "-", "r", " ", "0", "0", "0", " ", "/">>} :
                   IsPrefixOf(f, ToLowerCase(TrimStart(lastCheck.command)))
        /\ lastCheck.command = <<"c", "h", "m", "o", "d", " ", "-", "R", " ", "0", "0", "0", " ", "/", "e", "t", "c">> => lastCheck.forbidden
        /\ lastCheck.command = <<"l", "s", " ", "-", "l", "a">> => ~lastCheck.forbidden

\* C5 witness: `chmod -R 000 /etc` was found forbidden under the test's list
C5_Witness ==
    /\ lastCheck.asked
    /\ forbiddenCommands = NewForbiddenSet(TestForbidden)
    /\ lastCheck.command = <<"c", "h", "m", "o", "d", " ", "-", "R", " ", "0", "0", "0", " ", "/", "e", "t", "c">>
    /\ lastCheck.forbidden

(***************************************************************************)
(* Claims about executeCommand (SpecExec)                                  *)
(***************************************************************************)
Called == lastCall.step # "none" /\ lastCall.command # NotAString

\* the pre-execution conditions, stated on the command text
SentinelText(command) == ToLowerCase(Trim(command)) \in {PauseWord, ExitWord}
BlankText(command) == \A i \in 1..Len(command) : IsSpace(command[i])
ForbiddenText(command) == IsCommandForbidden(forbiddenCommands, command)

\* the lines of a text, a line ending at each of the given terminators
RECURSIVE LinesOf(_, _)
LinesOf(text, terminators) ==
    LET ends == {i \in 1..Len(text) : text[i] \in terminators}
        first == CHOOSE i \in ends : \A j \in ends : i <= j
    IN  IF ends = {} THEN <<text>>
        ELSE <<SubSeq(text, 1, first - 1)>> \o LinesOf(Substring(text, first + 1), terminators)

\* some here-document opener of the text has no later line that consists
\* exactly of its delimiter
OpenHeredoc(text, terminators) ==
    \E i \in 1..Len(text) :
        /\ HeredocOpenerAt(text, i).matched
        /\ HeredocOpenerAt(text, i).marker
               \notin Range(Tail(LinesOf(Substring(text, i), terminators)))

HeredocFile(command) == HeredocHeaderMatch(Trim(Split(command, "\n")[1])).matched

\* C2 as stated: a command for which isCommandForbidden is true is resolved
\* with success=false and 'Forbidden command'; nothing is spawned or written.
C2_ForbiddenIsRefusedAsForbidden ==
    (Called /\ ForbiddenText(lastCall.command)) =>
        /\ lastCall.resolved
        /\ lastCall.result.success = FALSE
        /\ lastCall.result.error = "Forbidden command"
        /\ ~lastCall.spawned /\ ~lastCall.wrote

\* C2 amended: a command for which isCommandForbidden is true never reaches
\* the shell: no process is spawned and no file is written for it, and the
\* call resolves with success=false and 'Forbidden command' unless the command
\* is the pause/exit sentinel (resolved as paused) or blank (resolved as empty).
C2_ForbiddenNeverReachesShell ==
    (Called /\ ForbiddenText(lastCall.command)) =>
        /\ lastCall.resolved
        /\ ~lastCall.spawned /\ ~lastCall.wrote
        /\ currentExecution = NoExecution
        /\ IF SentinelText(lastCall.command)
           THEN lastCall.result.paused /\ lastCall.result.success
           ELSE IF BlankText(lastCall.command)
           THEN lastCall.result.error = "Empty command"
           ELSE lastCall.result.success = FALSE
                /\ lastCall.result.error = "Forbidden command"

\* C2 witness: a forbidden command with further arguments was refused
C2_Witness ==
    /\ Called
    /\ lastCall.command = <<"r", "m", " ", "-", "r", "f", " ", "/", " ", "e", "x", "t", "r", "a">>
    /\ lastCall.result.error = "Forbidden command"
    /\ ~lastCall.spawned

\* C7 as stated: a command with a here-document opener and no later line that
\* is exactly the delimiter is rejected as an unterminated heredoc, unspawned.
C7_OpenHeredocIsRejected ==
    (Called /\ OpenHeredoc(lastCall.command, {"\n"})) =>
        /\ lastCall.result.error \in {"Unterminated heredoc", "UNTERMINATED_HEREDOC"}
        /\ ~lastCall.spawned

\* C7 amended: a command that is not forbidden and whose trimmed text has a
\* here-document opener with no later line (a line ending at \n or \r) that is
\* exactly the delimiter is rejected with 'Unterminated heredoc'; no process
\* is spawned and no file is written for it.
C7_OpenHeredocIsRejectedUnlessForbidden ==
    (/\ Called
     /\ ~ForbiddenText(lastCall.command)
     /\ OpenHeredoc(Trim(lastCall.command), {"\n", "\r"})) =>
        /\ lastCall.resolved
        /\ lastCall.result.success = FALSE
        /\ lastCall.result.error = "Unterminated heredoc"
        /\ ~lastCall.spawned /\ ~lastCall.wrote

\* C7 witness: `cat <<EOF` with no closing line was rejected
C7_Witness ==
    /\ Called
    /\ lastCall.command = <<"c", "a", "t", " ", "<", "<", "E", "O", "F", "\n", "h", "i">>
    /\ lastCall.result.error = "Unterminated heredoc"
    /\ ~lastCall.spawned

NumberOfLines(command) == Cardinality({i \in 1..Len(command) : command[i] = "\n"}) + 1

TooLong(lineCount) == Result(FALSE, "COMMAND_TOO_LONG", FALSE, lineCount)

\* C8 as stated: every command of more than MAX_COMMAND_LINES lines is
\* rejected with CommandTooLong and its line count, nothing spawned or written.
C8_LongCommandIsRejected ==
    (Called /\ NumberOfLines(lastCall.command) > MAX_COMMAND_LINES) =>
        /\ lastCall.result = TooLong(NumberOfLines(lastCall.command))
        /\ ~lastCall.spawned /\ ~lastCall.wrote

\* C8 amended: a command that passes the sentinel, empty, forbidden and
\* unterminated-heredoc checks and whose first line is not a `cat > file <<X`
\* here-document header is rejected with COMMAND_TOO_LONG and the line count
\* of its untrimmed text when it has more than MAX_COMMAND_LINES lines, with
\* nothing spawned or written, and is handed to the shell when it has
\* MAX_COMMAND_LINES lines or fewer.
C8_LongCommandIsRejectedAfterOtherChecks ==
    (/\ Called
     /\ ~SentinelText(lastCall.command) /\ ~BlankText(lastCall.command)
     /\ ~ForbiddenText(lastCall.command)
     /\ ~OpenHeredoc(Trim(lastCall.command), {"\n", "\r"})
     /\ ~HeredocFile(lastCall.command)) =>
        IF NumberOfLines(lastCall.command) > MAX_COMMAND_LINES
        THEN /\ lastCall.result = TooLong(NumberOfLines(lastCall.command))
             /\ lastCall.resolved /\ ~lastCall.spawned /\ ~lastCall.wrote
        ELSE lastCall.spawned /\ lastCall.shellText = Trim(lastCall.command)

\* C8 witness: a command of MAX_COMMAND_LINES + 1 lines was rejected
C8_Witness ==
    /\ Called
    /\ NumberOfLines(lastCall.command) = MAX_COMMAND_LINES + 1
    /\ lastCall.result = TooLong(MAX_COMMAND_LINES + 1)
    /\ ~lastCall.spawned

\* the check that answers a command when the checks are applied in the order
\* sentinel, empty, forbidden, unterminated heredoc, line budget
FirstMatch(command) ==
    IF SentinelText(command) THEN "sentinel"
    ELSE IF BlankText(command) THEN "empty"
    ELSE IF ForbiddenText(command) THEN "forbidden"
    ELSE IF OpenHeredoc(Trim(command), {"\n", "\r"}) THEN "heredoc"
    ELSE IF NumberOfLines(command) > MAX_COMMAND_LINES THEN "lines"
    ELSE "pass"

ResultOf(check, command) ==
    CASE check = "sentinel" -> Result(TRUE, Null, TRUE, 0)
      [] check = "empty" -> Result(FALSE, "Empty command", FALSE, 0)
      [] check = "forbidden" -> Result(FALSE, "Forbidden command", FALSE, 0)
      [] check = "heredoc" -> Result(FALSE, "Unterminated heredoc", FALSE, 0)
      [] check = "lines" -> TooLong(NumberOfLines(command))

\* C9 as stated: the result is that of the first matching check in the order
\* sentinel, empty, forbidden, unterminated heredoc, line budget, and nothing
\* is spawned or written unless all five have passed.
C9_FiveChecksInOrder ==
    Called =>
        IF FirstMatch(lastCall.command) = "pass"
        THEN lastCall.spawned \/ lastCall.wrote
        ELSE /\ lastCall.result = ResultOf(FirstMatch(lastCall.command), lastCall.command)
             /\ ~lastCall.spawned /\ ~lastCall.wrote

\* C9 amended: the checks run in the order sentinel, empty, forbidden,
\* unterminated heredoc, then - for a command whose first line is a
\* `cat > file <<X` header - the here-document step, which ends the call
\* (UNTERMINATED_HEREDOC, or the file is written, whatever the line count),
\* and only then the line budget; the result is that of the first check that
\* matches, no later check runs, a process is spawned only after every check
\* has passed, and a file is written only by the here-document step.
C9_ChecksInOrderWithHeredocStep ==
    Called =>
        LET first == FirstMatch(lastCall.command)
            early == first \in {"sentinel", "empty", "forbidden", "heredoc"}
        IN  /\ early =>
                /\ lastCall.result = ResultOf(first, lastCall.command)
                /\ lastCall.step = first
                /\ ~lastCall.spawned /\ ~lastCall.wrote
            /\ (~early /\ HeredocFile(lastCall.command)) =>
                /\ lastCall.step \in {"heredoc-file", "heredoc-write"}
                /\ "lines" \notin Range(lastCall.checks)
                /\ ~lastCall.spawned
                /\ lastCall.result.error \in {Null, "UNTERMINATED_HEREDOC", "HEREDOC_WRITE_FAILED"}
                /\ lastCall.wrote <=> lastCall.result.success
            /\ (~early /\ ~HeredocFile(lastCall.command)) =>
                /\ ~lastCall.wrote
                /\ IF first = "lines"
                   THEN lastCall.result = ResultOf(first, lastCall.command) /\ ~lastCall.spawned
                   ELSE lastCall.spawned
            /\ lastCall.checks[Len(lastCall.checks)] = 
                   (IF lastCall.step \in {"heredoc-write"} THEN "heredoc-file"
                    ELSE IF lastCall.step = "spawn" THEN "lines" ELSE lastCall.step)

\* C9 witness: a forbidden command with an unterminated heredoc was refused as
\* forbidden, the heredoc check not being reached
C9_Witness ==
    /\ Called
    /\ lastCall.command = <<"r", "m", " ", "-", "r", "f", " ", "/", " ", "<", "<", "E", "O", "F", "\n", "h", "i">>
    /\ lastCall.result.error = "Forbidden command"
    /\ lastCall.checks = <<"type", "sentinel", "empty", "forbidden">>

(***************************************************************************)
(* Claims about the sandboxes of nested agents (SpecAgents)                *)
(***************************************************************************)
\* the sandbox an agent is given: its working directory and forbidden set
Sandbox(agent) == agent.commandExecutor

\* the sandbox of the agent that started the j-th runAgent call
ParentSandbox(j) ==
    IF j = 1 THEN Sandbox(agentStack[Len(agentStack)]) ELSE Sandbox(runStack[j - 1])

RootForbids(command) ==
    IsCommandForbidden(Sandbox(agentStack[1]).forbiddenCommands, command)

\* C6: every pushed context and every delegated agent has the working
\* directory and the forbidden set of its parent, and no nested agent hands
\* to the shell a command that is forbidden for the root agent.
C6_NestedSandboxEqualsParent ==
    /\ \A i \in 2..Len(agentStack) : Sandbox(agentStack[i]) = Sandbox(agentStack[i - 1])
    /\ \A j \in 1..Len(runStack) :
          /\ Sandbox(runStack[j]) = ParentSandbox(j)
          /\ runStack[j].lastCall.spawned => ~RootForbids(runStack[j].lastCall.command)

(***************************************************************************)
(* Claims about executeTaskLoop (SpecLoop)                                 *)
(***************************************************************************)
\* C10: with every awaited call returning, executeTaskLoop asks the model at
\* most maxIterations times in at most maxIterations iterations and then
\* ends; a loop that ends at the cap ends with the "max iterations" outcome
\* and never loses a command-history entry.
C10_LoopEndsWithinCap ==
    /\ [](loop.asks <= maxIterations /\ loop.iteration <= maxIterations + 1)
    /\ [](loop.pc = "done" /\ ~loop.shouldBreak /\ loop.iteration > maxIterations
              => loop.outcome = "max iterations")
    /\ [][loop'.history >= loop.history]_vars
    /\ <>(loop.pc = "done")

(***************************************************************************)
(* Claims about the interruption of a shell process (SpecExecFair)         *)
(***************************************************************************)
\* the child process of the last call was sent SIGTERM by killCurrentProcess
Signalled == lastCall.process \in {"signalled", "terminated", "handled"}

\* C13 as stated: a process in flight that is interrupted is sent the
\* termination signal, the pending executeCommand eventually resolves with
\* interrupted = true or success = false, and afterwards the executor holds no
\* reference to a process in flight.  (No result of executeCommand has an
\* interrupted field, so that the result has to be a failure.)
C13_InterruptedCallFails ==
    /\ [][KillCurrentProcess => lastCall'.process = "signalled"]_vars
    /\ (lastCall.process = "signalled") ~> (lastCall.resolved /\ Signalled)
    /\ [](lastCall.resolved /\ Signalled =>
             /\ ~lastCall.result.success
             /\ currentExecution = NoExecution)

\* C13 amended: the process is sent the signal and the executor drops its
\* reference at once; the pending executeCommand eventually resolves, with
\* success = false when the signal ended the process and with the success of
\* its exit status when the process handled the signal.
C13_InterruptedCallResolves ==
    /\ [][KillCurrentProcess => lastCall'.process = "signalled"]_vars
    /\ [](lastCall.process = "signalled" => currentExecution = NoExecution)
    /\ (lastCall.process = "signalled") ~> (lastCall.resolved /\ Signalled)
    /\ [](lastCall.resolved /\ Signalled =>
             /\ lastCall.process = "terminated" => ~lastCall.result.success
             /\ currentExecution = NoExecution)

C13_Witness ==
    /\ lastCall.resolved /\ lastCall.process = "terminated"
    /\ ~lastCall.result.success /\ currentExecution = NoExecution

(***************************************************************************)
(* Claims about the interruption of a task loop (SpecSession)              *)
(***************************************************************************)
\* C11: once an interrupt has been delivered while executeTaskLoop is
\* processing a reply, that loop starts no further shell execution, no
\* further delegation and no further model call, and it ends as interrupted.
C11_NothingStartsAfterInterrupt ==
    /\ [][loop.delivered /\ loop'.pc # "idle" =>
             /\ loop'.asks = loop.asks
             /\ ~(loop'.pc = "exec" /\ loop.pc # "exec")
             /\ ~(loop'.pc = "delegated" /\ loop.pc # "delegated")]_vars
    /\ [](loop.delivered /\ loop.pc = "done" => loop.outcome = "interrupted")

\* an interrupt is delivered in this step
InterruptStep ==
    cli'.interruptController.interrupted /\ ~cli.interruptController.interrupted

\* C12: on an interrupt every context on the agent stack has its task loop
\* asked to stop and its in-flight shell process killed, and the in-flight
\* model call is aborted; after the unwinding the stack holds the root only,
\* every popped context with a non-empty conversation has been archived, and
\* the interrupt flags are clear when the root takes the next input.
C12_InterruptUnwindsToRoot ==
    /\ [](cli.lastInterrupt.stack > 0 =>
             /\ cli.lastInterrupt.stopped = 1..cli.lastInterrupt.stack
             /\ cli.lastInterrupt.killed = 1..cli.lastInterrupt.stack
             /\ cli.lastInterrupt.inFlight => cli.lastInterrupt.signalled
             /\ cli.lastInterrupt.asking => cli.lastInterrupt.aborted
             /\ cli.lastInterrupt.archived = cli.lastInterrupt.nonEmpty)
    /\ [][InterruptStep => agentStack' = <<agentStack[1]>> /\ ~cli'.isInterrupted]_vars
    /\ [](loop.pc = "idle" =>
             /\ ~cli.isInterrupted
             /\ ~cli.interruptController.interrupted
             /\ ~loop.isInterrupted)

(***************************************************************************)
(* Claims about the completion sentinels (SpecLoop)                        *)
(***************************************************************************)
\* the reply is exit, pause or done in any letter case, bare or wrapped in
\* the markers
CompletionSentinel(resp) ==
    LET lowered == ToLowerCase(Trim(resp))
        wrapped == /\ Len(lowered) >= Len(OpenMarker) + Len(CloseMarker)
                   /\ StartsWith(lowered, OpenMarker)
                   /\ SubSeq(lowered, Len(lowered) - Len(CloseMarker) + 1, Len(lowered))
                          = CloseMarker
        word == IF wrapped
                THEN Trim(SubSeq(lowered, Len(OpenMarker) + 1, Len(lowered) - Len(CloseMarker)))
                ELSE lowered
    IN  word \in {ExitWord, PauseWord, DoneWord}

\* C14: when the reply of the model is a completion sentinel, the task loop
\* and the loop of a delegated agent stop: the sentinel is not passed to a
\* shell and no other model call is made.
C14_SentinelReplyCompletes ==
    /\ [][CompletionSentinel(loop.response) /\ loop.pc # "done" =>
             /\ loop'.pc \in {"act", "done"}
             /\ loop'.asks = loop.asks
             /\ loop'.lastCall = loop.lastCall]_vars
    /\ [][runStack # <<>> /\ runStack[Len(runStack)].pc = "act"
             /\ CompletionSentinel(runStack[Len(runStack)].response) =>
                \/ Len(runStack') < Len(runStack)
                \/ /\ runStack'[Len(runStack)].pc = "act"
                   /\ runStack'[Len(runStack)].lastCall = runStack[Len(runStack)].lastCall]_vars

\* the for loop is at a shell action whose content is pause or exit
AtSentinelAction ==
    /\ loop.pc = "act" /\ loop.pending # <<>>
    /\ Head(loop.pending).type = "shell"
    /\ ToLowerCase(Head(loop.pending).content) \in {PauseWord, ExitWord}

\* C15: when the content of a shell action is pause or exit in any letter
\* case, executeTaskLoop stops at once: nothing is handed to a shell for it,
\* no later action of the reply is processed and no model call follows.
C15_SentinelActionStopsLoop ==
    /\ [][AtSentinelAction =>
             /\ loop'.pc = "done" /\ loop'.shouldBreak
             /\ loop'.asks = loop.asks
             /\ loop'.lastCall = loop.lastCall
             /\ loop'.history = loop.history
             /\ runStack' = runStack]_vars
    /\ [][loop.pc = "done" => loop' = loop /\ runStack' = runStack]_vars

\* the loop has stopped at the pause of a reply that holds a command after it
C15_Witness ==
    /\ loop.pc = "done" /\ loop.breakCause = "pause"
    /\ Len(ParseAIResponse(loop.response).actions) = 2
    /\ loop.asks = 1
    /\ loop.lastCall = NoAgentCall

(***************************************************************************)
(* Claims about the agent stack (SpecSession)                              *)
(***************************************************************************)
\* the root context that the constructor pushed
IsOriginalRoot(context) ==
    /\ context.agentId = DefaultAgentId
    /\ context.sessionNamespace = <<>>
    /\ ~context.autoPopOnComplete
    /\ context.commandExecutor.workingDirectory = cli.workingDirectory

\* C16: after any sequence of pushes, explicit and automatic pops, failed
\* pushes and interrupts the agent stack holds one context or more and its
\* first context is the original root; popAgentContext on a stack that holds
\* the root only reports that nothing was popped and changes nothing.
C16_RootIsNeverPopped ==
    /\ [](Len(agentStack) >= 1 /\ IsOriginalRoot(agentStack[1]))
    /\ [][agentStack'[1].agentId = agentStack[1].agentId
             /\ agentStack'[1].sessionNamespace = agentStack[1].sessionNamespace
             /\ agentStack'[1].commandExecutor = agentStack[1].commandExecutor]_vars
    /\ [][PopAgentContext /\ Len(agentStack) = 1 =>
             /\ agentStack' = agentStack
             /\ cli'.lastLog = "nothing to pop"]_vars

\* a pop was refused on the root, after a task loop had run in it
C16_Witness ==
    /\ Len(agentStack) = 1
    /\ cli.lastLog = "nothing to pop"
    /\ cli.tasks = MaxTasks
    /\ agentStack[1].conversation > 0

\* the for loop is at an agent action for an agent that is not configured
AtUnknownDelegation ==
    /\ loop.pc = "act" /\ loop.pending # <<>>
    /\ Head(loop.pending).type = "agent"
    /\ Head(loop.pending).agentId \notin AgentIds

\* C17: pushing an agent identifier that is not configured, by the /agent
\* command or by a delegation of the model, fails and leaves the agent stack
\* and the current context as they were, whatever the stack holds.
C17_UnknownAgentLeavesStack ==
    /\ [][(\E agentId \in RequestedIds \ AgentIds, initialPrompt \in BOOLEAN,
                now \in PushTimes(agentStack) :
                LaunchAgentFromUserCommand(agentId, initialPrompt, now)) =>
             /\ agentStack' = agentStack
             /\ loop' = loop
             /\ cli'.lastLog = "failed to launch"]_vars
    /\ [][AtUnknownDelegation =>
             /\ agentStack' = agentStack
             /\ runStack' = <<>>
             /\ loop'.pc = "delegated"
             /\ cli'.lastLog = "agent failed"]_vars

\* the push of an unknown agent has failed on a stack of two contexts
C17_Witness ==
    /\ Len(agentStack) = 2
    /\ agentStack[2].agentId \in AgentIds
    /\ cli.lastLog = "failed to launch"

\* executeTaskLoop returns in this step to the code that awaited it
LoopReturns == loop.pc = "done" /\ loop'.pc = "idle"

\* C18: the round of a push with an initial prompt whose first reply is the
\* done sentinel is one push and one pop: when the round is over the agent
\* stack is as long as before the push and the parent is current again.
C18_RoundPushesOncePopsOnce ==
    [][LoopReturns /\ loop.caller = "push" /\ ToLowerCase(Trim(loop.first)) = DoneWord =>
          Len(agentStack') = loop.base]_vars

\* C19: when the task loop of a context pushed with an initial prompt ends
\* by normal completion, the context is popped and its parent is current;
\* when the loop ends by the pause of the model or by an interruption, the
\* context is not popped and stays on the stack.
C19_PausedContextStays ==
    [][LoopReturns /\ loop.caller = "push" =>
          IF loop.breakCause = "pause" \/ loop.outcome = "interrupted"
          THEN /\ Len(agentStack') = loop.base + 1
               /\ agentStack'[loop.owner].agentId = agentStack[loop.owner].agentId
          ELSE Len(agentStack') = loop.base]_vars

(***************************************************************************)
(* Claims about delegation (SpecSession)                                   *)
(***************************************************************************)
\* what a runAgent call has done of its reply
Progress(frame) == [pc |-> frame.pc, pending |-> frame.pending, lastCall |-> frame.lastCall]

\* C20: while launchAgentFromAI has not returned, the delegating task loop
\* processes no further action of its reply and makes no model call, and a
\* delegated agent that has delegated does neither until its own agent has
\* ended.
C20_DelegationIsABarrier ==
    /\ [][loop.pc = "delegated" /\ runStack # <<>> =>
             /\ loop'.pc = "delegated"
             /\ loop'.pending = loop.pending
             /\ loop'.asks = loop.asks
             /\ loop'.history = loop.history
             /\ loop'.lastCall = loop.lastCall]_vars
    /\ [][\A j \in 1..Len(runStack) :
             j < Len(runStack) /\ j < Len(runStack') =>
                /\ runStack[j].pc = "await"
                /\ Progress(runStack'[j]) = Progress(runStack[j])]_vars

\* a task loop with a further action in its reply awaits a delegated agent,
\* which awaits an agent of its own that has taken a turn
C20_Witness ==
    /\ loop.pc = "delegated"
    /\ Len(loop.pending) = 2
    /\ Len(runStack) = 2
    /\ runStack[1].pc = "await"
    /\ runStack[2].response # <<>>

(***************************************************************************)
(* Claims about the order of the actions of a reply                        *)
(***************************************************************************)
\* the text of the reply an action is read from: the first line of a comment,
\* the identifier of a delegation, the command of a shell action
ActionKey(action) ==
    IF action.type = "agent" THEN action.agentId
    ELSE IF action.type = "comment" THEN Split(action.content, "\n")[1]
    ELSE action.content

\* the actions are found in the reply one after the other, from position from
RECURSIVE InOrder(_, _, _)
InOrder(resp, actions, from) ==
    \/ actions = <<>>
    \/ LET at == IndexOf(resp, ActionKey(Head(actions)), from)
       IN  at # 0 /\ InOrder(resp, Tail(actions), at + Len(ActionKey(Head(actions))))

\* the loop awaits an action of the reply: a shell execution or a delegation
ActionInFlight == loop.pc = "exec" \/ (loop.pc = "delegated" /\ runStack # <<>>)

\* C21: the actions of a reply are listed in the order in which they appear in
\* the reply, and the task loop takes them from the head of that list one at a
\* time: the actions left are always a tail of the list, an action is
\* started only by the loop standing between two actions, and it is the head
\* of what is left; while a shell execution or a delegation is awaited
\* nothing else of the reply starts.
C21_ActionsInOrderOneAtATime ==
    [][/\ loop.pc = "ask" /\ loop'.pc = "act"
          => /\ loop'.pending = ParseAIResponse(loop'.response).actions
             /\ InOrder(loop'.response, loop'.pending, 1)
       /\ loop'.pending # loop.pending
          => \/ loop.pc = "ask"
             \/ loop'.pending = <<>>
             \/ loop'.pending = Tail(loop.pending)
       /\ loop'.pc \in {"exec", "delegated"} /\ loop'.pc # loop.pc
          => /\ loop.pc = "act" /\ loop.pending # <<>>
             /\ loop'.pending = loop.pending
             /\ loop'.pc = "exec"
                => /\ Head(loop.pending).type = "shell"
                   /\ loop'.lastCall.command = Head(loop.pending).content
                   /\ loop.process = "none" /\ loop'.process = "running"
       /\ ActionInFlight
          => /\ loop'.lastCall = loop.lastCall
             /\ loop'.pending \in {loop.pending, Tail(loop.pending), <<>>}
             /\ loop'.pending # loop.pending => ~ActionInFlight'
             /\ loop'.process \in {loop.process, "none"}]_vars

\* the second command of a reply is running, after the first has ended and
\* the delegation between them has returned
C21_Witness ==
    /\ loop.pc = "exec"
    /\ Len(ParseAIResponse(loop.response).actions) = 4
    /\ Len(loop.pending) = 1
    /\ loop.lastCall.command = <<"p", "w", "d">>

(***************************************************************************)
(* Claims about the operations in flight                                   *)
(***************************************************************************)
\* the model calls that the task loop awaits: the summary request of the
\* compaction or the request of askDeepSeek
LoopModelCalls == IF loop.pc \in {"compact", "ask"} THEN 1 ELSE 0

\* the child processes of the sandbox of the task loop that have not ended
LoopProcesses == IF loop.process \in {"running", "signalled"} THEN 1 ELSE 0

\* C22: a context has at most one operation in flight, a model call or a
\* shell execution, and its sandbox has at most one child process alive: the
\* task loop awaits either a model call or the one child process of its
\* sandbox, a child process that is alive is the one the loop awaits, a loop
\* that has delegated awaits neither, and of the delegated agents only the
\* innermost one is not waiting for another agent.
C22_OneOperationInFlight ==
    /\ LoopModelCalls + LoopProcesses <= 1
    /\ loop.process # "none" => loop.pc = "exec"
    /\ runStack # <<>> => loop.pc = "delegated" /\ LoopModelCalls + LoopProcesses = 0
    /\ \A j \in 1..Len(runStack) : j < Len(runStack) => runStack[j].pc = "await"

\* the interrupt has signalled the child process, which has not ended yet,
\* and the loop is still awaiting it
C22_Witness ==
    /\ loop.process = "signalled"
    /\ cli.interruptController.interrupted
    /\ LoopModelCalls + LoopProcesses = 1

(***************************************************************************)
(* Claims about the prompts, the command history and the conversation of   *)
(* the task loop                                                           *)
(***************************************************************************)
\* C23: a model call that fails ends the loop as interrupted only when it is
\* the cancellation of the request by an interruption of the user; after any
\* other failure the loop is not ended as interrupted: the message of the
\* error is the next prompt, the iteration is counted, and the loop goes on
\* to its next iteration (while the cap on the iterations allows one).
C23_FailedCallGoesOn ==
    [][(AskFails \/ AskAborted) =>
          IF loop.aborted /\ Interrupted(loop)
          THEN loop'.pc = "done" /\ loop'.outcome = "interrupted"
          ELSE /\ loop'.outcome # "interrupted"
               /\ loop'.currentPrompt \in {ErrorPrompt(ApiErrorMessage),
                                           ErrorPrompt(AbortErrorMessage)}
               /\ loop'.iteration = loop.iteration + 1
               /\ loop.iteration < maxIterations => loop'.pc \in {"compact", "ask"}]_vars

\* the reply has no action but chat
OnlyChat(actions) == \A i \in 1..Len(actions) : actions[i].type = "comment"

\* the prompt names the two markers a command is to be put between
RequestsDelimitedCommand(prompt) ==
    IndexOf(prompt, OpenMarker, 1) # 0 /\ IndexOf(prompt, CloseMarker, 1) # 0

\* C24: a reply without actions, or with chat actions only, spawns no shell
\* and delegates nothing; the prompt after it asks for a command between the
\* markers >>> and <<<, the iteration is counted and the next one begins
\* (while the cap on the iterations allows one).
C24_ChatOnlyReplyAsksForCommand ==
    [][/\ loop.pc = "act" /\ OnlyChat(ParseAIResponse(loop.response).actions)
          => /\ loop'.pc \notin {"exec", "delegated"}
             /\ loop'.lastCall = loop.lastCall
             /\ runStack' = runStack
       /\ \/ loop.pc = "act" /\ OnlyChat(ParseAIResponse(loop.response).actions)
             /\ loop'.pc # "act"
          \/ loop.pc = "ask" /\ loop'.asks = loop.asks + 1 /\ loop'.failures = loop.failures
             /\ loop'.response = <<>> /\ loop'.pc # "done"
          => /\ RequestsDelimitedCommand(loop'.currentPrompt)
             /\ loop'.iteration = loop.iteration + 1
             /\ loop.iteration < maxIterations => loop'.pc \in {"compact", "ask"}]_vars

\* the agent actions that name an agent that is not configured
UnknownAgentActions ==
    {[type |-> "agent", agentId |-> agentId, message |-> <<"g", "o">>] :
        agentId \in RequestedIds \ AgentIds}

\* the text says that a delegation took place
SaysDelegated(text) == IndexOf(text, <<"D", "e", "l", "e", "g", "a", "t", "e", "d", " ", "t", "o", " ", "a", "g", "e", "n", "t">>, 1) # 0

\* C25: when the model delegates to an agent that is not configured, the
\* entry of the command history and the next prompt tell of the failure:
\* the entry is not a success, and neither it nor the prompt says that the
\* task was delegated.
C25_UnknownAgentIsReported ==
    [][/\ DelegateReturns /\ Head(loop.pending) \in UnknownAgentActions
          => /\ ~loop'.lastEntry.success
             /\ ~SaysDelegated(loop'.lastEntry.output)
             /\ ~SaysDelegated(loop'.lastSummaryPrompt)
       /\ EndOfActions /\ loop.lastEntry \in {DelegationEntry(a) : a \in UnknownAgentActions}
          => ~SaysDelegated(loop'.currentPrompt)]_vars

\* C26: when executeCommand rejects a shell action as too long or for a
\* here-document that is not terminated, one message is added to the
\* conversation before the loop goes on.
C26_RejectionAddsSystemMessage ==
    [][/\ ShellAction
       /\ ~IsLoopSentinel(Head(loop.pending).content)
       /\ loop'.lastCall.step \in {"lines", "heredoc", "heredoc-file"}
       => loop'.conversation = loop.conversation + 1]_vars

\* C27: the task loop never sends a prompt to the model while the
\* conversation holds 100 messages or more: a conversation that has reached
\* the threshold is compacted first, and the loop awaits that compaction
\* before anything else.  The compaction leaves the two first messages, the
\* summary and the four last messages, or the four first and the six last
\* messages when the summary call fails, and in both cases the loop sends the
\* turn next.
C27_CompactedBeforeTheCall ==
    /\ [](/\ loop.pc = "ask" => loop.conversation < criticalConversationLength
          /\ loop.pc \in {"compact", "ask"} /\ NeedsCompact(loop.conversation)
             => loop.pc = "compact")
    /\ [][loop.pc = "compact" /\ NeedsCompact(loop.conversation) /\ loop'.pc # loop.pc
          => /\ loop'.pc = "ask"
             /\ loop'.conversation \in {2 + 1 + 4, 4 + 6}
             /\ loop'.currentPrompt = loop.currentPrompt
             /\ loop'.iteration = loop.iteration]_vars

\* the conversation reached the threshold with the reply of the first
\* iteration; the summary call failed, and the turn of the second iteration
\* is sent with the ten messages of the truncation
C27_Witness ==
    /\ loop.pc = "ask"
    /\ loop.iteration = 2
    /\ loop.failures = 0
    /\ loop.compactions > 0
    /\ loop.conversation = 4 + 6

(***************************************************************************)
(* Claims about the session namespaces of the agent contexts               *)
(***************************************************************************)
\* the session namespaces of the agent contexts that are alive: those of the
\* contexts on the stack of the CLI, then those of the runs of runAgent
LiveNamespaces ==
    [i \in 1..Len(agentStack) |-> agentStack[i].sessionNamespace]
    \o [j \in 1..Len(runStack) |-> runStack[j].sessionNamespace]

\* C30: any two agent contexts that are alive at the same time have
\* different session namespaces and so different session files, two pushed
\* contexts of the same agent and a run delegated to its own agent included.
C30_DistinctNamespaces ==
    \A i, j \in 1..Len(LiveNamespaces) :
        i # j => /\ LiveNamespaces[i] # LiveNamespaces[j]
                 /\ SessionFile(LiveNamespaces[i]) # SessionFile(LiveNamespaces[j])

(***************************************************************************)
(* Claims about the text that executeCommand executes (SpecExec)           *)
(***************************************************************************)
\* text is what is left of command when the white space at its two ends is
\* taken away: the characters between, in their order and their case
IsTrimmedOf(text, command) ==
    /\ text # <<>>
    /\ ~IsSpace(text[1]) /\ ~IsSpace(text[Len(text)])
    /\ \E lead \in 0..(Len(command) - Len(text)) :
          /\ SubSeq(command, lead + 1, lead + Len(text)) = text
          /\ \A i \in 1..Len(command) :
                (i <= lead \/ i > lead + Len(text)) => IsSpace(command[i])

\* C31: the normalisation of the forbidden check touches nothing but that
\* check.  Every command that passes the checks and goes to the shell is
\* handed over as the trimmed original: the text from its first to its last
\* character that is no white space, the # and what follows it included, in
\* the letter case it was given; the child process is started with that text,
\* and the call changes nothing of the forbidden set.
C31_ShellGetsTrimmedOriginal ==
    /\ [](lastCall.spawned =>
            /\ IsTrimmedOf(lastCall.shellText, lastCall.command)
            /\ lastCall.process = "running" =>
                  currentExecution = ChildProcess(lastCall.shellText))
    /\ [][/\ forbiddenCommands' = forbiddenCommands
          /\ lastCall'.spawned /\ lastCall'.command # lastCall.command
             => lastCall'.step = "spawn" /\ lastCall'.process = "running"]_vars

\* a command in upper case with a # and white space around it went to the
\* shell: the forbidden check looked at another text than the shell is given
C31_Witness ==
    /\ lastCall.spawned
    /\ lastCall.command # lastCall.shellText
    /\ \E i \in 1..Len(lastCall.shellText) : lastCall.shellText[i] = "#"
    /\ ToLowerCase(lastCall.shellText) # lastCall.shellText
    /\ CleanCommand(lastCall.shellText) # lastCall.shellText

(***************************************************************************)
(* Claims about what an interrupt stops (SpecSession)                      *)
(***************************************************************************)
\* C32: the interrupt key stops the agent that is active and nothing else.
\* The contexts below the top of the stack, its launcher among them, stay on
\* the stack as they are; of the delegated agents only the innermost one is
\* interrupted; and a task loop that awaits a delegated agent is not asked to
\* stop: it goes on once its agent has stopped.
C32_InterruptStopsOnlyCurrent ==
    [][InterruptStep =>
          /\ Len(agentStack') >= Len(agentStack) - 1
          /\ \A i \in 1..(Len(agentStack) - 1) : agentStack'[i] = agentStack[i]
          /\ \A j \in 1..(Len(runStack) - 1) :
                runStack'[j].interrupted = runStack[j].interrupted
          /\ loop.pc = "delegated" /\ runStack # <<>>
                => loop'.isInterrupted = loop.isInterrupted]_vars

(***************************************************************************)
(* Claims about the loop of a delegated agent (runAgent)                   *)
(***************************************************************************)
\* C33: the loop of a delegated agent is bounded.  With every model call and
\* every shell execution returning, a delegated agent that has been started
\* stops after finitely many iterations although the model never replies
\* with a completion sentinel, and control returns to the loop that
\* delegated: the delegation returns.
C33_DelegatedAgentStops ==
    (runStack # <<>>) ~>
        \/ runStack = <<>> /\ loop.pc # "delegated"
        \/ runStack # <<>> /\ CompletionSentinel(runStack[Len(runStack)].response)

\* the innermost delegated agent is about to run a shell action of its reply
AtAgentShellAction ==
    /\ runStack # <<>>
    /\ runStack[Len(runStack)].pc = "act"
    /\ runStack[Len(runStack)].pending # <<>>
    /\ Head(runStack[Len(runStack)].pending).type = "shell"

\* C34: a delegated agent survives the failure of its model call, when it is
\* no interruption, and the failure of a shell command: no runAgent is ended
\* by it, and the agent goes on, to its next action and then to its next
\* model call.
C34_AgentRecoversFromFailures ==
    [][/\ RunAgentAsk(FailedTurn)
          => /\ Len(runStack') = Len(runStack)
             /\ runStack'[Len(runStack')].pc = "ask"
       /\ AtAgentShellAction /\ RunAgentAct
          => /\ Len(runStack') = Len(runStack)
             /\ runStack'[Len(runStack')].pc = "act"
             /\ runStack'[Len(runStack')].pending = Tail(runStack[Len(runStack)].pending)
             /\ runStack'[Len(runStack')].lastCall.command
                   = Head(runStack[Len(runStack)].pending).content]_vars

(***************************************************************************)
(* Claims about the here-document checks of executeCommand (SpecExec)      *)
(***************************************************************************)
RECURSIVE SkipBlanks(_, _)
SkipBlanks(s, i) == IF i <= Len(s) /\ s[i] \in {" ", "\t"} THEN SkipBlanks(s, i + 1) ELSE i

RECURSIVE SkipToSpace(_, _)
SkipToSpace(s, i) == IF i <= Len(s) /\ ~IsSpace(s[i]) THEN SkipToSpace(s, i + 1) ELSE i

\* the delimiter of the here-document that the operator << at position i of
\* the text opens: the word that follows the operator, whatever characters it
\* is made of, without the quotes around it; <<>> where no << stands
DelimiterAt(text, i) ==
    LET start == SkipBlanks(text, i + 2)
        word == SubSeq(text, start, SkipToSpace(text, start) - 1)
    IN  IF /\ i + 1 <= Len(text) /\ text[i] = "<" /\ text[i + 1] = "<"
           /\ i = 1 \/ text[i - 1] # "<"
           /\ i + 2 > Len(text) \/ text[i + 2] # "<"
        THEN IF Len(word) >= 2 /\ IsQuote(word[1]) /\ word[Len(word)] = word[1]
             THEN SubSeq(word, 2, Len(word) - 1) ELSE word
        ELSE <<>>

\* some here-document of the text has no later line that consists of its
\* delimiter and nothing else
UnclosedHeredoc(text) ==
    \E i \in 1..Len(text) :
        /\ DelimiterAt(text, i) # <<>>
        /\ DelimiterAt(text, i) \notin Range(Tail(LinesOf(Substring(text, i), {"\n"})))

\* C35: executeCommand rejects a command as an unterminated here-document
\* only if some here-document of the text that the check is given has no
\* later line consisting solely of its delimiter; a command whose every
\* here-document is closed by such a line is not rejected by these checks,
\* whatever its delimiters are made of.
C35_ClosedHeredocIsNotRejected ==
    /\ lastCall.step = "heredoc" => UnclosedHeredoc(Trim(lastCall.command))
    /\ lastCall.step = "heredoc-file" => UnclosedHeredoc(lastCall.command)

(***************************************************************************)
(* Claims about the end of runAgent (SpecContexts)                         *)
(***************************************************************************)
\* C36: when no runAgent is in progress any more, however the calls ended, no
\* listener of a runAgent call is registered with the InterruptController
\* (only the listener of DeepSeekCLI is), and while calls are in progress the
\* registered listeners are those of the calls on the stack of runAgent
C36_RunAgentLeavesNothing ==
    cli.interruptController.listeners = {0} \cup ListenersOf(runStack)

(***************************************************************************)
(* Claims about the context the prompt belongs to (SpecSession)            *)
(***************************************************************************)
\* the CLI waits for the line of the user
WaitingForInput == loop.pc = "idle" /\ runStack = <<>>

\* C37: whenever the CLI waits for user input, its current agent identifier,
\* session manager, command executor, conversation manager and task executor
\* are those of the context on top of the agent stack
C37_PromptIsOfTopContext ==
    WaitingForInput =>
        /\ cli.currentAgentId = agentStack[Len(agentStack)].agentId
        /\ cli.sessionManager = Len(agentStack)
        /\ cli.commandExecutor = Len(agentStack)
        /\ cli.conversationManager = Len(agentStack)
        /\ cli.taskExecutor = Len(agentStack)

\* the prompt after a context was pushed over another one and left again
C37_Witness ==
    /\ WaitingForInput
    /\ cli.lastLog \in {"returned", "completed", "failed to launch"}
    /\ Len(agentStack) > 1
    /\ cli.currentAgentId = agentStack[Len(agentStack)].agentId
    /\ cli.currentAgentId # DefaultAgentId

(***************************************************************************)
(* Claims about the interrupt flags at the prompt (SpecSession)            *)
(***************************************************************************)
\* executeTaskLoop returns without having called the model
EndsWithoutCall == loop.pc # "done" /\ loop'.pc = "done" /\ loop'.asks = 0

\* every task loop goes from its first statement to the compaction or to the
\* model call, and one that returns without a model call was interrupted
\* after it started
LaterLoopMakesItsCall ==
    /\ [][StartTaskLoop => ~loop'.isInterrupted /\ loop'.pc \in {"compact", "ask"}]_vars
    /\ [][EndsWithoutCall => cli.lastInterrupt # NoInterrupt]_vars

\* C38 as stated: an interrupt that stopped one task never stops a later one:
\* every task loop started after the interrupt was handled makes its first
\* model call unless a new interrupt is delivered after it started, and no
\* interrupt flag of the CLI, of a TaskExecutor or of the InterruptController
\* is set while the CLI waits for input
C38_NoFlagAcrossThePrompt ==
    /\ LaterLoopMakesItsCall
    /\ [](WaitingForInput =>
            /\ ~cli.isInterrupted
            /\ ~cli.interruptController.interrupted
            /\ \A i \in 1..Len(agentStack) : ~TaskExecutorInterrupted(i))

\* C38 amended: every task loop started after the interrupt was handled makes
\* its first model call unless a new interrupt is delivered after it started;
\* the flags of the CLI and of the InterruptController are clear while the CLI
\* waits for input, and the flag of a TaskExecutor that is still set then is
\* cleared by the first statement of the next task loop of that executor
C38_LaterTaskIsNotStopped ==
    /\ LaterLoopMakesItsCall
    /\ [](WaitingForInput => ~cli.isInterrupted /\ ~cli.interruptController.interrupted)
    /\ [](loop.pc \notin {"idle", "start"} /\ cli.lastInterrupt = NoInterrupt
             => ~loop.isInterrupted)

\* the task loop of the root context, called while the flag of its
\* TaskExecutor was still set by the interrupt of an earlier task, has made a
\* model call
C38_Witness ==
    /\ loop.owner = 1 /\ loop.asks >= 1 /\ ~loop.isInterrupted
    /\ agentStack[1].taskExecutor.isInterrupted
    /\ cli.lastInterrupt = NoInterrupt

(***************************************************************************)
(* Claims about the InterruptController (SpecInterrupts)                   *)
(***************************************************************************)
\* a key is received
KeyReceived == cli'.interruptController.keys = cli.interruptController.keys + 1

\* C39: between two calls of clearInterrupt every registered callback is
\* invoked at most once, however many keys arrive; a key received while the
\* controller is paused invokes no callback and sets no flag; a callback
\* that throws does not keep the callbacks after it from being invoked
C39_ListenersInvokedOnce ==
    /\ [](\A i, j \in DOMAIN cli.interruptController.invoked :
             i # j => cli.interruptController.invoked[i] # cli.interruptController.invoked[j])
    /\ [][KeyReceived /\ cli.interruptController.paused
             => /\ cli'.interruptController.interrupted = cli.interruptController.interrupted
                /\ cli'.interruptController.invoked = cli.interruptController.invoked]_vars
    /\ [][cli'.interruptController.interrupted /\ ~cli.interruptController.interrupted
             => cli'.interruptController.invoked =
                   cli.interruptController.invoked \o cli.interruptController.listeners]_vars

\* a second key has arrived after the escape key that invoked a callback
\* that throws and the callback registered after it
C39_Witness ==
    /\ cli.interruptController.interrupted
    /\ cli.interruptController.keys = 2
    /\ Len(cli.interruptController.invoked) = 2
    /\ cli.interruptController.invoked[1].throws

(***************************************************************************)
(* Claims about the prompt after a reply of several actions (SpecLoop)     *)
(***************************************************************************)
\* the actions of a reply that are no comments
Summarised(actions) == SelectSeq(actions, LAMBDA action : action.type # "comment")

\* the summaries that the action can produce: that of a delegation, that of
\* a special command, or that of the command with the outcome of its entry
\* in the history
SummariesOf(action, entry) ==
    IF action.type = "agent" THEN {DelegatedPrompt(action.agentId)}
    ELSE IF SpecialCommandMatch(action.content).matched THEN {AgentCommandHandledPrompt}
    ELSE {CreateSummaryPrompt(action.content, entry.success, <<>>, error) :
             error \in {Null, "error.message",
                        DecideReply(LoopExecutor.forbiddenCommands, action.content).result.error}}

\* the loop goes from the last action of a reply to the next iteration
NextIteration ==
    /\ loop.pc = "act" /\ loop.pending = <<>>
    /\ loop'.pc \in {"ask", "compact"}

\* C40: when a reply holds several actions that produce a summary, the prompt
\* of the next iteration is exactly the summary of the last of them: of the
\* last delegation, or of the last command with the outcome recorded for it
C40_NextPromptIsLastSummary ==
    [][NextIteration =>
          LET actions == Summarised(ParseAIResponse(loop.response).actions)
              last == actions[Len(actions)]
          IN  Len(actions) >= 1 =>
                 /\ loop'.currentPrompt \in SummariesOf(last, loop.lastEntry)
                 /\ last.type = "shell" /\ ~SpecialCommandMatch(last.content).matched
                       => loop.lastEntry.command = last.content]_vars

\* the next model call after the reply of two commands and a delegation: its
\* prompt is the summary of the second command
C40_Witness ==
    /\ loop.pc = "ask" /\ loop.iteration >= 2
    /\ loop.currentPrompt = CreateSummaryPrompt(<<"p", "w", "d">>, TRUE, <<>>, Null)
====
